---- MODULE Spec2Model ----
(***************************************************************************)
(* Model of the document extraction pipeline of pdf-extract: the four      *)
(* extraction routes (extract, extract-simple, extract-enhanced,           *)
(* extract-ocr), text acquisition with the OCR fallback, and the line-item *)
(* parser.  Texts, file names and media types are sequences of one-        *)
(* character strings, so that the string and regular-expression operations *)
(* of the source are computed, not assumed.                                *)
(***************************************************************************)
EXTENDS Integers, Sequences, FiniteSets, TLC

(***************************************************************************)
(* Characters and JavaScript string operations                             *)
(***************************************************************************)
UpperSeq == <<"A","B","C","D","E","F","G","H","I","J","K","L","M",
              "N","O","P","Q","R","S","T","U","V","W","X","Y","Z">>
LowerSeq == <<"a","b","c","d","e","f","g","h","i","j","k","l","m",
              "n","o","p","q","r","s","t","u","v","w","x","y","z">>
DigitSeq == <<"0","1","2","3","4","5","6","7","8","9">>

Range(f) == {f[i] : i \in DOMAIN f}

\* the characters of a string
Chars(w) == [i \in 1..Len(w) |-> SubSeq(w, i, i)]

Upper == Range(UpperSeq)
Lower == Range(LowerSeq)
Digit == Range(DigitSeq)
Punct == {".", ",", "$", ":", "#", "-", "_", "/", "%", "&", "'", "(", ")", "+"}
\* \s of the regular expressions and of String.prototype.trim
WhiteSpace == {" ", "\t", "\n", "\r"}
AllChars == Upper \cup Lower \cup Digit \cup Punct \cup WhiteSpace
\* . of the regular expressions: any character but a line terminator
Dot == AllChars \ {"\n", "\r"}
\* \w of the regular expressions
WordChar == Upper \cup Lower \cup Digit \cup {"_"}

IndexIn(c, seq) == CHOOSE i \in DOMAIN seq : seq[i] = c

ToLowerChar(c) == IF c \in Upper THEN LowerSeq[IndexIn(c, UpperSeq)] ELSE c
ToUpperChar(c) == IF c \in Lower THEN UpperSeq[IndexIn(c, LowerSeq)] ELSE c

toLowerCase(s) == [i \in 1..Len(s) |-> ToLowerChar(s[i])]

\* a character class under the i flag
CI(set) == set \cup {ToLowerChar(c) : c \in set} \cup {ToUpperChar(c) : c \in set}

Min(a, b) == IF a < b THEN a ELSE b
Max(a, b) == IF a > b THEN a ELSE b

RECURSIVE LeadingSpaces(_, _)
LeadingSpaces(s, i) ==
  IF i > Len(s) \/ s[i] \notin WhiteSpace THEN i - 1 ELSE LeadingSpaces(s, i + 1)

RECURSIVE LastNonSpace(_, _)
LastNonSpace(s, i) ==
  IF i < 1 \/ s[i] \notin WhiteSpace THEN i ELSE LastNonSpace(s, i - 1)

trim(s) ==
  LET a == LeadingSpaces(s, 1)
      b == LastNonSpace(s, Len(s))
  IN IF b <= a THEN <<>> ELSE SubSeq(s, a + 1, b)

startsWith(s, p) == Len(s) >= Len(p) /\ SubSeq(s, 1, Len(p)) = p
endsWith(s, p) == Len(s) >= Len(p) /\ SubSeq(s, Len(s) - Len(p) + 1, Len(s)) = p

includes(s, p) ==
  \E i \in 1..(Len(s) - Len(p) + 1) : SubSeq(s, i, i + Len(p) - 1) = p

\* s.replace(/,/g, '')
removeCommas(s) == SelectSeq(s, LAMBDA c : c # ",")

\* s.split('\n'): the pieces between the line feeds
LineFeeds(s) == {i \in 1..Len(s) : s[i] = "\n"}
\* the k-th smallest element of a set of numbers
Nth(set, k) == CHOOSE i \in set : Cardinality({j \in set : j < i}) = k - 1
split(s) ==
  LET nl == LineFeeds(s)
      n == Cardinality(nl)
      from(k) == IF k = 1 THEN 1 ELSE Nth(nl, k - 1) + 1
      to(k) == IF k = n + 1 THEN Len(s) ELSE Nth(nl, k) - 1
  IN [k \in 1..(n + 1) |-> SubSeq(s, from(k), to(k))]

SelectNonEmpty(seq) == SelectSeq(seq, LAMBDA l : Len(l) > 0)

\* lines.join('\n')
RECURSIVE join(_)
join(ls) ==
  IF ls = <<>> THEN <<>>
  ELSE IF Len(ls) = 1 THEN ls[1]
       ELSE ls[1] \o <<"\n">> \o join(Tail(ls))

Repeat(c, n) == [i \in 1..n |-> c]

(***************************************************************************)
(* Numbers: parseFloat.  A number is mant / 10^exp, with the fraction's    *)
(* trailing zeros removed so that equal numbers are equal records; nan     *)
(* marks NaN.                                                              *)
(***************************************************************************)
NaN == [nan |-> TRUE, neg |-> FALSE, mant |-> 0, exp |-> 0]

RECURSIVE Normalize(_, _)
Normalize(m, e) ==
  IF e > 0 /\ m % 10 = 0 THEN Normalize(m \div 10, e - 1) ELSE <<m, e>>

Number(neg, m, e) ==
  LET n == Normalize(m, e)
  IN [nan |-> FALSE, neg |-> neg /\ n[1] # 0, mant |-> n[1], exp |-> n[2]]

DigitValue(c) == IndexIn(c, DigitSeq) - 1

RECURSIVE DigitRun(_, _)
DigitRun(s, i) ==
  IF i > Len(s) \/ s[i] \notin Digit THEN 0 ELSE 1 + DigitRun(s, i + 1)

RECURSIVE DigitsValue(_, _, _)
DigitsValue(s, i, n) ==
  IF n = 0 THEN 0 ELSE DigitsValue(s, i, n - 1) * 10 + DigitValue(s[i + n - 1])

\* parseFloat(s): leading white space skipped, then the longest prefix
\* [+-]? digits [. digits]; NaN when that prefix holds no digit.
\* s is the string from its first non-blank character on, p the position
\* after the sign, n1 and n2 the lengths of the two runs of digits.
ParsedDigits(s, neg, p, n1, n2) ==
  IF n1 + n2 = 0 THEN NaN
  ELSE Number(neg,
              DigitsValue(s, p, n1) * (10 ^ n2) + DigitsValue(s, p + n1 + 1, n2),
              n2)

ParsedFraction(s, neg, p, n1) ==
  ParsedDigits(s, neg, p, n1,
               IF p + n1 <= Len(s) /\ s[p + n1] = "." THEN DigitRun(s, p + n1 + 1) ELSE 0)

ParsedSign(s, signed) ==
  ParsedFraction(s, signed /\ s[1] = "-", IF signed THEN 2 ELSE 1,
                 DigitRun(s, IF signed THEN 2 ELSE 1))

parseFloat(str) == ParsedSign(trim(str), (Len(trim(str)) > 0 /\ trim(str)[1] \in {"+", "-"}))

\* x > 0 on numbers; false for NaN
GreaterThanZero(x) == ~x.nan /\ ~x.neg /\ x.mant > 0
\* JavaScript truthiness of a number: false for NaN and 0
Truthy(x) == ~x.nan /\ x.mant # 0

(***************************************************************************)
(* Regular expressions.  A pattern is a sequence of items, matched as the  *)
(* backtracking matcher of String.prototype.match and RegExp.prototype.test*)
(* does: leftmost start, alternatives in order, greedy counts from the     *)
(* longest, lazy counts from the shortest.                                 *)
(*   <<"cls", set, min, max, greedy>>  min..max characters of set          *)
(*                                     (max = -1: unbounded)               *)
(*   <<"alt", <<p1, ..., pn>>>>        (?:p1|...|pn)                       *)
(*   <<"open", g>>, <<"close", g>>     the parentheses of capture group g  *)
(*   <<"bol", m>>, <<"eol", m>>        ^ and $, m: the m flag              *)
(***************************************************************************)
C(set, min, max) == <<"cls", set, min, max, TRUE>>
Lazy(set, min, max) == <<"cls", set, min, max, FALSE>>
Plus(set) == C(set, 1, -1)
Star(set) == C(set, 0, -1)
Maybe(set) == C(set, 0, 1)
One(c) == C({c}, 1, 1)
Alt(branches) == <<"alt", branches>>
Opt(branch) == Alt(<<branch, <<>>>>)
Open(g) == <<"open", g>>
Close(g) == <<"close", g>>
Bol == <<"bol", FALSE>>
BolM == <<"bol", TRUE>>
Eol == <<"eol", FALSE>>
EolM == <<"eol", TRUE>>
\* a literal word, and a literal word under the i flag
Lit(w) == [i \in 1..Len(w) |-> One(w[i])]
LitI(w) == [i \in 1..Len(w) |-> C(CI({w[i]}), 1, 1)]
Word(w) == Lit(Chars(w))
WordI(w) == LitI(Chars(w))

NoCaps == [g \in 1..4 |-> <<0, 0>>]
NoMatch == [ok |-> FALSE, start |-> 0, end |-> 0, caps |-> NoCaps]

RECURSIVE RunLength(_, _, _, _)
RunLength(s, pos, set, max) ==
  IF max = 0 \/ pos > Len(s) \/ s[pos] \notin set THEN 0
  ELSE 1 + RunLength(s, pos + 1, set, max - 1)

RECURSIVE MatchAt(_, _, _, _)
RECURSIVE TryCount(_, _, _, _, _, _, _)
RECURSIVE TryAlt(_, _, _, _, _, _)

MatchAt(items, s, pos, caps) ==
  IF items = <<>> THEN [ok |-> TRUE, start |-> 0, end |-> pos, caps |-> caps]
  ELSE
    LET it == Head(items)
        rest == Tail(items)
    IN CASE it[1] = "cls" ->
              LET avail == RunLength(s, pos, it[2], it[4])
              IN IF avail < it[3] THEN NoMatch
                 ELSE IF it[5] THEN TryCount(rest, s, pos, caps, avail, it[3], -1)
                      ELSE TryCount(rest, s, pos, caps, it[3], avail, 1)
         [] it[1] = "alt" -> TryAlt(it[2], 1, rest, s, pos, caps)
         [] it[1] = "open" ->
              MatchAt(rest, s, pos, [caps EXCEPT ![it[2]] = <<pos, 0>>])
         [] it[1] = "close" ->
              MatchAt(rest, s, pos, [caps EXCEPT ![it[2]] = <<caps[it[2]][1], pos>>])
         [] it[1] = "bol" ->
              IF pos = 1 \/ (it[2] /\ s[pos - 1] \in {"\n", "\r"})
              THEN MatchAt(rest, s, pos, caps) ELSE NoMatch
         [] it[1] = "eol" ->
              IF pos = Len(s) + 1 \/ (it[2] /\ s[pos] \in {"\n", "\r"})
              THEN MatchAt(rest, s, pos, caps) ELSE NoMatch

TryCount(rest, s, pos, caps, n, last, step) ==
  LET r == MatchAt(rest, s, pos + n, caps)
  IN IF r.ok THEN r
     ELSE IF n = last THEN NoMatch
          ELSE TryCount(rest, s, pos, caps, n + step, last, step)

TryAlt(branches, k, rest, s, pos, caps) ==
  IF k > Len(branches) THEN NoMatch
  ELSE LET r == MatchAt(branches[k] \o rest, s, pos, caps)
       IN IF r.ok THEN r ELSE TryAlt(branches, k + 1, rest, s, pos, caps)

\* the leftmost position from p on at which the pattern matches
SearchFrom(items, s, p) ==
  LET starts == {q \in p..(Len(s) + 1) : MatchAt(items, s, q, NoCaps).ok}
  IN IF starts = {} THEN NoMatch
     ELSE LET q == Nth(starts, 1)
          IN [MatchAt(items, s, q, NoCaps) EXCEPT !.start = q]

\* s.match(re) for a regular expression without the g flag
match(s, re) == SearchFrom(re, s, 1)
\* re.test(s)
test(re, s) == match(s, re).ok
\* match[g]; <<>> stands for both undefined and '' (both are falsy)
Group(s, m, g) ==
  IF m.caps[g][2] = 0 THEN <<>> ELSE SubSeq(s, m.caps[g][1], m.caps[g][2] - 1)
\* match[0]
Whole(s, m) == SubSeq(s, m.start, m.end - 1)

(***************************************************************************)
(* The line-item parser (extractLineItems of extract-simple and            *)
(* extract-ocr, which are the same function)                               *)
(***************************************************************************)

AmountChars == Digit \cup {","}

\* /^(.{10,50})\s+(\d+(?:\.\d{1,2})?)\s+\$?([\d,]+\.?\d*)\s+\$?([\d,]+\.?\d*)$/
tablePatternDescQtyPriceAmount ==
  <<Bol, Open(1), C(Dot, 10, 50), Close(1), Plus(WhiteSpace),
    Open(2), Plus(Digit), Opt(<<One("."), C(Digit, 1, 2)>>), Close(2),
    Plus(WhiteSpace), Maybe({"$"}),
    Open(3), Plus(AmountChars), Maybe({"."}), Star(Digit), Close(3),
    Plus(WhiteSpace), Maybe({"$"}),
    Open(4), Plus(AmountChars), Maybe({"."}), Star(Digit), Close(4), Eol>>

\* /^(.{10,80})\s+\$?([\d,]+\.\d{2})$/
tablePatternDescAmount ==
  <<Bol, Open(1), C(Dot, 10, 80), Close(1), Plus(WhiteSpace), Maybe({"$"}),
    Open(2), Plus(AmountChars), One("."), C(Digit, 2, 2), Close(2), Eol>>

\* /^(\d+(?:\.\d{1,2})?)\s+(.{10,50})\s+\$?([\d,]+\.?\d*)\s+\$?([\d,]+\.?\d*)$/
tablePatternQtyDescPriceAmount ==
  <<Bol, Open(1), Plus(Digit), Opt(<<One("."), C(Digit, 1, 2)>>), Close(1),
    Plus(WhiteSpace), Open(2), C(Dot, 10, 50), Close(2),
    Plus(WhiteSpace), Maybe({"$"}),
    Open(3), Plus(AmountChars), Maybe({"."}), Star(Digit), Close(3),
    Plus(WhiteSpace), Maybe({"$"}),
    Open(4), Plus(AmountChars), Maybe({"."}), Star(Digit), Close(4), Eol>>

\* each pattern with the number of its capture groups (match.length - 1)
tablePatterns ==
  <<[re |-> tablePatternDescQtyPriceAmount, groups |-> 4],
    [re |-> tablePatternDescAmount, groups |-> 2],
    [re |-> tablePatternQtyDescPriceAmount, groups |-> 4]>>

\* /description|item|service|product/i, /qty|quantity|amount/i,
\* /price|rate|cost/i, /total|subtotal/i
tableHeaders ==
  <<<<Alt(<<WordI("description"), WordI("item"), WordI("service"), WordI("product")>>)>>,
    <<Alt(<<WordI("qty"), WordI("quantity"), WordI("amount")>>)>>,
    <<Alt(<<WordI("price"), WordI("rate"), WordI("cost")>>)>>,
    <<Alt(<<WordI("total"), WordI("subtotal")>>)>>>>

\* /^(subtotal|tax|total|notes?|payment|due|thank)/i
footerPattern ==
  <<Bol, Open(1),
    Alt(<<WordI("subtotal"), WordI("tax"), WordI("total"),
          WordI("note") \o <<Maybe(CI({"s"}))>>,
          WordI("payment"), WordI("due"), WordI("thank")>>),
    Close(1)>>

hasTableHeaders(line) == \E h \in Range(tableHeaders) : test(h, line)

\* { description: d.trim(), quantity: parseFloat(q),
\*   unitPrice: parseFloat(u.replace(/,/g, '')), amount: parseFloat(a.replace(/,/g, '')) }
QuantityLineItem(d, q, u, a) ==
  [description |-> trim(d),
   hasQuantity |-> TRUE,
   quantity |-> parseFloat(q),
   unitPrice |-> parseFloat(removeCommas(u)),
   amount |-> parseFloat(removeCommas(a))]

\* { description: d.trim(), amount: parseFloat(a.replace(/,/g, '')) }
AmountLineItem(d, a) ==
  [description |-> trim(d),
   hasQuantity |-> FALSE,
   quantity |-> NaN,
   unitPrice |-> NaN,
   amount |-> parseFloat(removeCommas(a))]

\* the LineItem built from a match, by match.length (groups + 1): 5, 4, 3
LineItemOfMatch(line, m, groups) ==
  IF groups + 1 = 5 THEN
    QuantityLineItem(Group(line, m, 1), Group(line, m, 2), Group(line, m, 3), Group(line, m, 4))
  ELSE IF groups + 1 = 4 THEN
    QuantityLineItem(Group(line, m, 2), Group(line, m, 1), Group(line, m, 3), Group(line, m, 4))
  ELSE
    AmountLineItem(Group(line, m, 1), Group(line, m, 2))

\* the acceptance test without its check of the amount
DescriptionOnly(item) == Len(item.description) > 0 /\ Len(item.description) > 5

\* if (lineItem.description && lineItem.description.length > 5 &&
\*     (lineItem.amount && lineItem.amount > 0))
ValidLineItem(item) ==
  /\ Len(item.description) > 0
  /\ Len(item.description) > 5
  /\ Truthy(item.amount)
  /\ GreaterThanZero(item.amount)

\* the index of the first table pattern that matches the line, 0 if none
RECURSIVE FirstPattern(_, _)
FirstPattern(line, k) ==
  IF k > Len(tablePatterns) THEN 0
  ELSE IF test(tablePatterns[k].re, line) THEN k
       ELSE FirstPattern(line, k + 1)

\* if (lineItem.description && ... ) { lineItems.push(lineItem); lineCount++; }
Accepted(item) == IF ValidLineItem(item) THEN <<item>> ELSE <<>>

\* the body of the loop over tablePatterns for the pattern that matches
ParsedWith(line, pattern) ==
  Accepted(LineItemOfMatch(line, match(line, pattern.re), pattern.groups))

\* for (const pattern of tablePatterns) { ... }: the items the line adds;
\* k is the first pattern that matches the line
ParsedAt(line, k) == IF k = 0 THEN <<>> ELSE ParsedWith(line, tablePatterns[k])

ParseLine(line) == ParsedAt(line, FirstPattern(line, 1))

\* if (lineCount >= 20) break;
LineItemCap == 20

\* const lines = text.split('\n').map(line => line.trim()).filter(line => line.length > 0)
LinesOf(text) ==
  LET raw == split(text)
  IN SelectNonEmpty([k \in 1..Len(raw) |-> trim(raw[k])])

\* the state of extractLineItems when its loop over the lines begins
ParserStart(text) ==
  [pc |-> "scan", lines |-> LinesOf(text), i |-> 1,
   inLineItemSection |-> FALSE, lineCount |-> 0, lineItems |-> <<>>,
   capBreak |-> FALSE]

\* the loop's state after a line of the item section added the items new.
\* capBreak records that the break under lineCount >= 20 was taken: it ends
\* the loop over tablePatterns, as the break that follows it does, and the
\* loop over the lines goes on.
Scanned(p, new) ==
  [p EXCEPT !.lineItems = @ \o new,
            !.lineCount = @ + Len(new),
            !.capBreak = @ \/ (Len(new) > 0 /\ p.lineCount + Len(new) >= LineItemCap),
            !.i = @ + 1]

\* the body of the loop without the test that ends the table
ScanLineNoFooter(p, line) ==
  IF ~p.inLineItemSection
  THEN IF hasTableHeaders(line)
       THEN [p EXCEPT !.inLineItemSection = TRUE, !.i = @ + 1]
       ELSE [p EXCEPT !.i = @ + 1]
  ELSE Scanned(p, ParseLine(line))

\* the body of the loop over the lines for one line
ScanLine(p, line) ==
  IF ~p.inLineItemSection
  THEN IF hasTableHeaders(line)
       THEN [p EXCEPT !.inLineItemSection = TRUE, !.i = @ + 1]
       ELSE [p EXCEPT !.i = @ + 1]
  ELSE IF test(footerPattern, line) THEN [p EXCEPT !.pc = "done"]
       ELSE Scanned(p, ParseLine(line))

\* One iteration of for (let i = 0; i < lines.length; i++) { ... }, or the
\* return when the loop is over.
ParserStep(p) ==
  IF p.i > Len(p.lines) THEN [p EXCEPT !.pc = "done"]
  ELSE ScanLine(p, p.lines[p.i])

RECURSIVE ParserRun(_)
ParserRun(p) == IF p.pc = "done" THEN p ELSE ParserRun(ParserStep(p))

\* function extractLineItems(text: string): LineItem[]
extractLineItems(text) == ParserRun(ParserStart(text)).lineItems

(***************************************************************************)
(* Field extraction of extract-simple and extract-ocr (extractInvoiceData, *)
(* the same function in both files)                                        *)
(***************************************************************************)

IdChars == CI(Upper \cup Digit \cup {"-", "_"})
ColonSpace == {":"} \cup WhiteSpace
NameChars == Upper \cup Lower \cup WhiteSpace \cup {"&", ",", ".", "-", "'", "(", ")"}
Slash == {"/", "-"}

\* \d{1,2}[\/\-]\d{1,2}[\/\-]\d{4}
NumericDate == <<C(Digit, 1, 2), C(Slash, 1, 1), C(Digit, 1, 2), C(Slash, 1, 1), C(Digit, 4, 4)>>
\* \$?\s*([\d,]+\.?\d*)
DollarAmount(g) ==
  <<Maybe({"$"}), Star(WhiteSpace), Open(g), Plus(AmountChars), Maybe({"."}), Star(Digit), Close(g)>>

invoicePatterns ==
  << \* /(?:invoice|inv|bill)\s*(?:number|#|no\.?)?[:\s#]+([A-Z0-9\-_]{3,})/i
     <<Alt(<<WordI("invoice"), WordI("inv"), WordI("bill")>>), Star(WhiteSpace),
       Opt(<<Alt(<<WordI("number"), Lit(<<"#">>), WordI("no") \o <<Maybe({"."})>>>>)>>),
       Plus(ColonSpace \cup {"#"}), Open(1), C(IdChars, 3, -1), Close(1)>>,
     \* /(?:^|\s)([A-Z]{2,}-?\d{4,})/m
     <<Alt(<<<<BolM>>, <<C(WhiteSpace, 1, 1)>>>>),
       Open(1), C(Upper, 2, -1), Maybe({"-"}), C(Digit, 4, -1), Close(1)>>,
     \* /#\s*([A-Z0-9\-_]{3,})/i
     <<One("#"), Star(WhiteSpace), Open(1), C(IdChars, 3, -1), Close(1)>>,
     \* /invoice[:\s]+([A-Z0-9\-_]{3,})/i
     WordI("invoice") \o <<Plus(ColonSpace), Open(1), C(IdChars, 3, -1), Close(1)>> >>

datePatterns ==
  << \* /(?:invoice\s*date|date|issued|bill\s*date)[:\s]+(\d{1,2}[\/\-]\d{1,2}[\/\-]\d{4})/i
     <<Alt(<<WordI("invoice") \o <<Star(WhiteSpace)>> \o WordI("date"), WordI("date"),
             WordI("issued"), WordI("bill") \o <<Star(WhiteSpace)>> \o WordI("date")>>),
       Plus(ColonSpace), Open(1)>> \o NumericDate \o <<Close(1)>>,
     \* /(?:date)[:\s]+(\w{3,9}\s+\d{1,2},?\s+\d{4})/i
     WordI("date") \o <<Plus(ColonSpace), Open(1), C(WordChar, 3, 9), Plus(WhiteSpace),
                       C(Digit, 1, 2), Maybe({","}), Plus(WhiteSpace), C(Digit, 4, 4), Close(1)>>,
     \* /(\d{1,2}[\/\-]\d{1,2}[\/\-]\d{4})/
     <<Open(1)>> \o NumericDate \o <<Close(1)>> >>

vendorPatterns ==
  << \* /(?:from|vendor|company|bill\s*to|sold\s*by)[:\s]+([A-Za-z\s&,.\-'()]{3,60})/i
     <<Alt(<<WordI("from"), WordI("vendor"), WordI("company"),
             WordI("bill") \o <<Star(WhiteSpace)>> \o WordI("to"),
             WordI("sold") \o <<Star(WhiteSpace)>> \o WordI("by")>>),
       Plus(ColonSpace), Open(1), C(NameChars, 3, 60), Close(1)>>,
     \* /^([A-Z][A-Za-z\s&,.\-'()]{5,50})(?:\n|$)/m
     <<BolM, Open(1), C(Upper, 1, 1), C(NameChars, 5, 50), Close(1),
       Alt(<<<<One("\n")>>, <<EolM>>>>)>> >>

subtotalPatterns ==
  << \* /(?:subtotal|sub\s*total)[:\s]+\$?\s*([\d,]+\.?\d*)/i
     <<Alt(<<WordI("subtotal"), WordI("sub") \o <<Star(WhiteSpace)>> \o WordI("total")>>),
       Plus(ColonSpace)>> \o DollarAmount(1) >>

taxPatterns ==
  << \* /(?:tax|vat)[:\s]+\$?\s*([\d,]+\.?\d*)/i
     <<Alt(<<WordI("tax"), WordI("vat")>>), Plus(ColonSpace)>> \o DollarAmount(1),
     \* /(?:tax\s*rate)[:\s]+(\d+(?:\.\d{1,2})?%)/i
     WordI("tax") \o <<Star(WhiteSpace)>> \o WordI("rate") \o
       <<Plus(ColonSpace), Open(1), Plus(Digit), Opt(<<One("."), C(Digit, 1, 2)>>),
         One("%"), Close(1)>> >>

totalPatterns ==
  << \* /(?:total|grand\s*total|amount\s*due|final\s*amount)[:\s]+\$?\s*([\d,]+\.?\d*)/i
     <<Alt(<<WordI("total"), WordI("grand") \o <<Star(WhiteSpace)>> \o WordI("total"),
             WordI("amount") \o <<Star(WhiteSpace)>> \o WordI("due"),
             WordI("final") \o <<Star(WhiteSpace)>> \o WordI("amount")>>),
       Plus(ColonSpace)>> \o DollarAmount(1),
     \* /(?:total)[:\s]+\$?\s*([\d,]+\.\d{2})/i
     WordI("total") \o <<Plus(ColonSpace), Maybe({"$"}), Star(WhiteSpace),
                        Open(1), Plus(AmountChars), One("."), C(Digit, 2, 2), Close(1)>>,
     \* /\$\s*([\d,]+\.\d{2})(?:\s|$)/
     <<One("$"), Star(WhiteSpace), Open(1), Plus(AmountChars), One("."), C(Digit, 2, 2),
       Close(1), Alt(<<<<C(WhiteSpace, 1, 1)>>, <<Eol>>>>)>> >>

\* s.replace(/[:\n\r]+$/, '')
RECURSIVE stripTrailingColons(_)
stripTrailingColons(s) ==
  IF s # <<>> /\ s[Len(s)] \in {":", "\n", "\r"}
  THEN stripTrailingColons(SubSeq(s, 1, Len(s) - 1)) ELSE s

\* The loops of extractInvoiceData over the patterns of one field: each
\* yields the fields it sets, as a record with the fields' names as domain.
\* A pattern counts when it matches and match[1] is not empty.
FirstGroup(text, m) == IF m.ok THEN Group(text, m, 1) ELSE <<>>
Captured(text, re) == FirstGroup(text, match(text, re))

NoFields == [f \in {} |-> <<>>]

\* What one pattern of a loop over patterns does with its match[1] (cap):
\* <<TRUE, fields>> when the loop ends with it (break), setting the fields,
\* <<FALSE, ...>> when the loop goes on to the next pattern.
\* if (match && match[1]) { result.f = match[1].trim(); break; }
CaptureOf(field, cap) == <<cap # <<>>, field :> trim(cap)>>

\* the vendor loop: the cleaned value must be 3 to maxLen - 1 characters long
CleanVendor(field, vendor, maxLen) ==
  <<Len(vendor) > 2 /\ Len(vendor) < maxLen, field :> vendor>>
VendorOf(field, cap, maxLen) ==
  IF cap = <<>> THEN <<FALSE, NoFields>>
  ELSE CleanVendor(field, stripTrailingColons(trim(cap)), maxLen)

\* the subtotal and total loops: the amount must parse to more than 0
CleanAmount(field, amount) == <<GreaterThanZero(parseFloat(amount)), field :> amount>>
AmountOf(field, cap) ==
  IF cap = <<>> THEN <<FALSE, NoFields>> ELSE CleanAmount(field, removeCommas(cap))

\* the tax loop: the first pattern that matches ends the loop, whether or
\* not it sets a field
TaxAmount(amount) ==
  IF GreaterThanZero(parseFloat(amount)) THEN "tax" :> amount ELSE NoFields
\* the body of the tax loop without its else: the amount is set beside the rate
TaxOfBoth(cap) ==
  IF cap = <<>> THEN <<FALSE, NoFields>>
  ELSE <<TRUE, (IF includes(cap, <<"%">>) THEN "taxRate" :> cap ELSE NoFields)
               @@ TaxAmount(removeCommas(cap))>>
TaxOf(cap) ==
  IF cap = <<>> THEN <<FALSE, NoFields>>
  ELSE <<TRUE, IF includes(cap, <<"%">>) THEN "taxRate" :> cap
               ELSE TaxAmount(removeCommas(cap))>>

\* one pattern of the loop of the given kind
PatternOutcome(kind, field, cap) ==
  CASE kind = "capture" -> CaptureOf(field, cap)
    [] kind = "vendor60" -> VendorOf(field, cap, 60)
    [] kind = "vendor100" -> VendorOf(field, cap, 100)
    [] kind = "amount" -> AmountOf(field, cap)
    [] kind = "tax" -> TaxOf(cap)

\* for (const pattern of patterns) { const match = text.match(pattern); ... }
RECURSIVE FirstOf(_, _, _, _, _)
Continue(text, patterns, k, kind, field, outcome) ==
  IF outcome[1] THEN outcome[2] ELSE FirstOf(text, patterns, k + 1, kind, field)
FirstOf(text, patterns, k, kind, field) ==
  IF k > Len(patterns) THEN NoFields
  ELSE Continue(text, patterns, k, kind, field,
                PatternOutcome(kind, field, Captured(text, patterns[k])))

\* const lineItems = extractLineItems(text); if (lineItems.length > 0) result.lineItems = lineItems
LineItemsOf(lineItems) == IF Len(lineItems) > 0 THEN "lineItems" :> lineItems ELSE NoFields
LineItemsField(text) == LineItemsOf(extractLineItems(text))

\* the loops of extractInvoiceData, in the order of the source
simpleLoops ==
  <<[kind |-> "capture", field |-> "invoiceNumber", patterns |-> invoicePatterns],
    [kind |-> "capture", field |-> "date", patterns |-> datePatterns],
    [kind |-> "vendor60", field |-> "vendor", patterns |-> vendorPatterns],
    [kind |-> "amount", field |-> "subtotal", patterns |-> subtotalPatterns],
    [kind |-> "tax", field |-> "tax", patterns |-> taxPatterns],
    [kind |-> "amount", field |-> "total", patterns |-> totalPatterns]>>

RECURSIVE LoopsOf(_, _, _)
LoopOf(text, loop) == FirstOf(text, loop.patterns, 1, loop.kind, loop.field)
LoopsOf(text, loops, k) ==
  IF k > Len(loops) THEN NoFields
  ELSE LoopOf(text, loops[k]) @@ LoopsOf(text, loops, k + 1)

\* function extractInvoiceData(text, filename): ExtractionResult
extractInvoiceData(text, filename) ==
  ("filename" :> filename) @@ LoopsOf(text, simpleLoops, 1) @@ LineItemsField(text)

(***************************************************************************)
(* Inputs: requests, files, and what the PDF decoder and the OCR engine    *)
(* can yield for them                                                      *)
(***************************************************************************)
\* the number of files of the largest batch that is processed file by file
MaxBatch == 2

MB == 1024 * 1024

\* if (files.length > 10) of extract, > 5 of extract-simple, > 3 of
\* extract-ocr, and isPremium ? 50 : 5 of extract-enhanced
MaxFilesExtract == 10
MaxFilesSimple == 5
MaxFilesOcr == 3
MaxFilesPremium == 50
MaxFilesFree == 5
\* if (textResult && textResult.trim().length > 50)
NativeTextThreshold == 50
\* if (!ocrText || ocrText.trim().length < 20)
OcrTextMinimum == 20

Routes == {"extract", "simple", "enhanced", "ocr"}

PdfType == Chars("application/pdf")
PngType == Chars("image/png")
TextType == Chars("text/plain")
UnknownFile == Chars("Unknown file")
DotPdf == Chars(".pdf")
ImageSlash == Chars("image/")

\* the files a batch is made of: name, declared media type, size in bytes
FileKinds ==
  { [name |-> Chars("a.pdf"), type |-> PdfType, size |-> MB],
    [name |-> Chars("b.pdf"), type |-> PdfType, size |-> 0],
    [name |-> Chars("C.PDF"), type |-> <<>>, size |-> 10 * MB],
    [name |-> Chars("d.pdf"), type |-> PdfType, size |-> 10 * MB + 1],
    [name |-> Chars("f.png"), type |-> PngType, size |-> MB],
    [name |-> Chars("g.txt"), type |-> TextType, size |-> MB],
    [name |-> <<>>, type |-> PdfType, size |-> MB],
    [name |-> Chars("h.pdf"), type |-> PngType, size |-> MB] }

\* the file every file of an oversized batch is
FillerFile == [name |-> Chars("a.pdf"), type |-> PdfType, size |-> MB]

\* texts a text layer or the OCR engine yields
TextBlank == <<" ", " ">>
\* 10 characters
TextNoise == Chars("Scan 00012")
\* 50 characters
TextFifty == Chars("Total: 30.00\n") \o Repeat("x", 37)
\* more than 100 characters, with a table
TextInvoice ==
  join(<< Chars("Invoice INV-1001"),
          Chars("Date: 03/15/2024"),
          Chars("From: Acme Supplies"),
          Chars("Item Qty Price Amount"),
          Chars("Widget ABCD 3 10.00 30.00"),
          Chars("Subtotal: 30.00"),
          Chars("Tax: 2.40"),
          Chars("Total: 32.40") >>)

KnownTexts == {TextBlank, TextNoise, TextFifty, TextInvoice}
\* the texts pdf-parse and the OCR engine yield
OcrTexts == {TextBlank, TextNoise, TextInvoice}
\* the texts as the routes pass them to the extraction: trimmed, or with the
\* line feed that ends a page
AcquirableTexts == {trim(t) : t \in KnownTexts} \cup {t \o <<"\n">> : t \in KnownTexts}

\* the messages of the errors the libraries throw
LibraryErrors == {"Invalid PDF structure", "Object.defineProperty called on non-object"}

\* PDF documents as the decoder sees them: the text of each page
Docs == {<<>>, <<TextBlank>>, <<TextNoise>>, <<TextFifty>>, <<TextInvoice>>}

\* What decoding a file's bytes can do.  primary: pdfjs getDocument and the
\* page loop; fallback: pdf-parse, which extract-simple and extract-ocr try
\* when the primary attempt fails.  An empty file is refused before the
\* decoder sees it, and pdf-parse throws on it.
Throws(m) == [kind |-> "throws", error |-> m, pages |-> <<>>, text |-> <<>>, images |-> 0]
Pages(d) == [kind |-> "pages", error |-> "", pages |-> d, text |-> <<>>, images |-> 0]
Text(t) == [kind |-> "text", error |-> "", pages |-> <<>>, text |-> t, images |-> 0]
Images(n) == [kind |-> "images", error |-> "", pages |-> <<>>, text |-> <<>>, images |-> n]

PrimaryOutcomes(file) ==
  IF file.size = 0 THEN {Throws("PDF file is empty")}
  ELSE {Throws(m) : m \in LibraryErrors} \cup {Pages(d) : d \in Docs}

FallbackOutcomes(file) ==
  IF file.size = 0 THEN {Throws(m) : m \in LibraryErrors}
  ELSE {Throws(m) : m \in LibraryErrors} \cup {Text(t) : t \in OcrTexts}

\* what rasterizing a file's pages can do: the number of images (at most 3,
\* and at most 2 from the alternative conversion), or an error
RasterOutcomes(file) ==
  IF file.size = 0 THEN {Throws("PDF file is empty")}
  ELSE {Throws(m) : m \in LibraryErrors} \cup {Images(3)}

AltRasterOutcomes(file) ==
  IF file.size = 0 THEN {Throws(m) : m \in LibraryErrors}
  ELSE {Throws(m) : m \in LibraryErrors} \cup {Images(2)}

\* what worker.recognize can do before the deadline
RecognizeOutcomes == {Throws("recognize failed")} \cup {Text(t) : t \in OcrTexts}

(***************************************************************************)
(* Messages are sequences of parts; a message that wraps another one       *)
(* prefixes it, and message.includes(part) is membership of the part.      *)
(***************************************************************************)
Wrap(prefix, msg) == <<prefix>> \o msg
MessageIncludes(msg, part) == \E k \in DOMAIN msg : msg[k] = part

Ok(text) == [ok |-> TRUE, text |-> text, error |-> <<>>]
Failed(msg) == [ok |-> FALSE, text |-> <<>>, error |-> msg]

(***************************************************************************)
(* Native text extraction (extractTextFromPDF of the four routes)          *)
(***************************************************************************)
\* const maxPages = Math.min(pdf.numPages, 50) and Math.min(pdf.numPages, 10)
MaxPagesSimple == 50
MaxPagesOcr == 10

\* extract and extract-enhanced: fullText += pageText + '\n' for every page
RECURSIVE AllPagesText(_)
AllPagesText(pages) ==
  IF pages = <<>> THEN <<>>
  ELSE Head(pages) \o <<"\n">> \o AllPagesText(Tail(pages))

\* extract-simple and extract-ocr: the first maxPages pages, and
\* if (pageText.trim()) fullText += pageText + '\n'
RECURSIVE LeadingPagesText(_, _)
LeadingPagesText(pages, maxPages) ==
  IF pages = <<>> \/ maxPages = 0 THEN <<>>
  ELSE (IF trim(Head(pages)) # <<>> THEN Head(pages) \o <<"\n">> ELSE <<>>)
         \o LeadingPagesText(Tail(pages), maxPages - 1)

\* the try block without its check that the text is not blank
PrimaryTextUnchecked(route, file, primary) ==
  IF file.size = 0 THEN Failed(<<"PDF file is empty">>)
  ELSE IF primary.kind = "throws" THEN Failed(<<primary.error>>)
  ELSE IF Len(primary.pages) = 0 THEN Failed(<<"PDF has no pages">>)
  ELSE IF route \in {"extract", "enhanced"} THEN Ok(AllPagesText(primary.pages))
  ELSE Ok(trim(AllPagesText(primary.pages)))

\* the try block of extractTextFromPDF
PrimaryText(route, file, primary) ==
  IF file.size = 0 THEN Failed(<<"PDF file is empty">>)
  ELSE IF primary.kind = "throws" THEN Failed(<<primary.error>>)
  ELSE IF Len(primary.pages) = 0 THEN Failed(<<"PDF has no pages">>)
  ELSE IF route \in {"extract", "enhanced"}
       THEN LET fullText == AllPagesText(primary.pages)
            IN IF Len(trim(fullText)) = 0
               THEN Failed(<<"No text content found in PDF">>)
               ELSE Ok(fullText)
       ELSE LET fullText == LeadingPagesText(primary.pages,
                              IF route = "simple" THEN MaxPagesSimple ELSE MaxPagesOcr)
            IN IF trim(fullText) = <<>>
               THEN Failed(<<"No readable text found in PDF">>)
               ELSE Ok(trim(fullText))

\* the catch block of extractTextFromPDF in extract-simple and extract-ocr
FallbackText(fallback) ==
  LET inner == IF fallback.kind = "throws" THEN Failed(<<fallback.error>>)
               ELSE IF trim(fallback.text) = <<>>
                    THEN Failed(<<"No readable text found in PDF">>)
                    ELSE Ok(trim(fallback.text))
  IN IF inner.ok THEN inner
     ELSE IF MessageIncludes(inner.error, "Object.defineProperty called on non-object")
          THEN Failed(<<"PDF file format not supported or file is corrupted">>)
          ELSE Failed(Wrap("PDF parsing failed: ", inner.error))

\* async function extractTextFromPDF(arrayBuffer): Promise<string>
extractTextFromPDF(route, file, primary, fallback) ==
  LET first == PrimaryText(route, file, primary)
  IN IF first.ok THEN first
     ELSE IF route \in {"extract", "enhanced"}
          THEN Failed(Wrap("PDF parsing failed: ", first.error))
          ELSE FallbackText(fallback)

(***************************************************************************)
(* Field extraction of extract (its own extractInvoiceData)                *)
(***************************************************************************)

\* (?:number|#|no\.?)?
NumberWord == Opt(<<Alt(<<WordI("number"), Lit(<<"#">>), WordI("no") \o <<Maybe({"."})>>>>)>>)
\* (?:date|invoice\s*date|issued|bill\s*date)\s*:?\s*
DateLabel ==
  <<Alt(<<WordI("date"), WordI("invoice") \o <<Star(WhiteSpace)>> \o WordI("date"),
          WordI("issued"), WordI("bill") \o <<Star(WhiteSpace)>> \o WordI("date")>>),
    Star(WhiteSpace), Maybe({":"}), Star(WhiteSpace)>>

\* the first three are also the invoiceNumber, and the first five of the
\* next two lists the date and vendor patterns, of 'Standard Invoice' in
\* extraction-patterns.ts
extractInvoicePatterns ==
  << \* /(?:invoice\s*(?:number|#|no\.?)?|inv\s*(?:number|#|no\.?)?|bill\s*(?:number|#|no\.?)?)\s*:?\s*([A-Z0-9\-_]+)/i
     <<Alt(<<WordI("invoice") \o <<Star(WhiteSpace), NumberWord>>,
             WordI("inv") \o <<Star(WhiteSpace), NumberWord>>,
             WordI("bill") \o <<Star(WhiteSpace), NumberWord>>>>),
       Star(WhiteSpace), Maybe({":"}), Star(WhiteSpace),
       Open(1), C(IdChars, 1, -1), Close(1)>>,
     \* /(?:^|\s)([A-Z]{2,3}-?\d{4,})/m
     <<Alt(<<<<BolM>>, <<C(WhiteSpace, 1, 1)>>>>),
       Open(1), C(Upper, 2, 3), Maybe({"-"}), C(Digit, 4, -1), Close(1)>>,
     \* /#\s*([A-Z0-9\-_]{3,})/i
     <<One("#"), Star(WhiteSpace), Open(1), C(IdChars, 3, -1), Close(1)>> >>

extractDatePatterns ==
  << \* /(?:date|invoice\s*date|issued|bill\s*date)\s*:?\s*(\d{1,2}[\/\-]\d{1,2}[\/\-]\d{4})/i
     DateLabel \o <<Open(1)>> \o NumericDate \o <<Close(1)>>,
     \* /(?:date|invoice\s*date|issued|bill\s*date)\s*:?\s*(\d{4}[\/\-]\d{1,2}[\/\-]\d{1,2})/i
     DateLabel \o <<Open(1), C(Digit, 4, 4), C(Slash, 1, 1), C(Digit, 1, 2),
                    C(Slash, 1, 1), C(Digit, 1, 2), Close(1)>>,
     \* /(?:date|invoice\s*date|issued|bill\s*date)\s*:?\s*(\w{3,9}\s+\d{1,2},?\s+\d{4})/i
     DateLabel \o <<Open(1), C(WordChar, 3, 9), Plus(WhiteSpace), C(Digit, 1, 2),
                    Maybe({","}), Plus(WhiteSpace), C(Digit, 4, 4), Close(1)>>,
     \* /(\d{1,2}[\/\-]\d{1,2}[\/\-]\d{4})/
     <<Open(1)>> \o NumericDate \o <<Close(1)>> >>

extractVendorPatterns ==
  << \* /(?:from|vendor|company|bill\s*to|sold\s*by)\s*:?\s*([A-Za-z\s&,.\-'()]+?)(?:\n|$|\s{2,})/i
     <<Alt(<<WordI("from"), WordI("vendor"), WordI("company"),
             WordI("bill") \o <<Star(WhiteSpace)>> \o WordI("to"),
             WordI("sold") \o <<Star(WhiteSpace)>> \o WordI("by")>>),
       Star(WhiteSpace), Maybe({":"}), Star(WhiteSpace),
       Open(1), Lazy(NameChars, 1, -1), Close(1),
       Alt(<<<<One("\n")>>, <<Eol>>, <<C(WhiteSpace, 2, -1)>>>>)>>,
     \* /^([A-Za-z\s&,.\-'()]{3,})\s*(?:\n|\r)/m
     <<BolM, Open(1), C(NameChars, 3, -1), Close(1), Star(WhiteSpace),
       C({"\n", "\r"}, 1, 1)>>,
     \* /(?:^|\n)\s*([A-Z][A-Za-z\s&,.\-'()]{5,}?)\s*(?:\n|Address|Phone|Email|Tax)/i
     <<Alt(<<<<Bol>>, <<One("\n")>>>>), Star(WhiteSpace),
       Open(1), C(CI(Upper), 1, 1), Lazy(NameChars, 5, -1), Close(1), Star(WhiteSpace),
       Alt(<<<<One("\n")>>, WordI("address"), WordI("phone"), WordI("email"), WordI("tax")>>)>> >>

\* (?:total|grand\s*total|amount\s*due|balance\s*due
TotalLabels ==
  <<WordI("total"), WordI("grand") \o <<Star(WhiteSpace)>> \o WordI("total"),
    WordI("amount") \o <<Star(WhiteSpace)>> \o WordI("due"),
    WordI("balance") \o <<Star(WhiteSpace)>> \o WordI("due")>>

\* /(?:total|grand\s*total|amount\s*due|balance\s*due|final\s*amount)\s*:?\s*\$?\s*([\d,]+\.?\d*)/i
TotalLabelled ==
  <<Alt(Append(TotalLabels, WordI("final") \o <<Star(WhiteSpace)>> \o WordI("amount"))),
    Star(WhiteSpace), Maybe({":"}), Star(WhiteSpace)>> \o DollarAmount(1)

\* /\$\s*([\d,]+\.\d{2})(?:\s|$)/
DollarTotal ==
  <<One("$"), Star(WhiteSpace), Open(1), Plus(AmountChars), One("."), C(Digit, 2, 2),
    Close(1), Alt(<<<<C(WhiteSpace, 1, 1)>>, <<Eol>>>>)>>

extractTotalPatterns ==
  << TotalLabelled,
     \* /(?:total|grand\s*total|amount\s*due|balance\s*due)\s*\$?\s*([\d,]+\.?\d*)/i
     <<Alt(TotalLabels), Star(WhiteSpace)>> \o DollarAmount(1),
     DollarTotal,
     \* /(?:^|\s)([\d,]+\.\d{2})\s*$$/m
     <<Alt(<<<<BolM>>, <<C(WhiteSpace, 1, 1)>>>>), Open(1), Plus(AmountChars), One("."),
       C(Digit, 2, 2), Close(1), Star(WhiteSpace), EolM, EolM>> >>

\* function extractInvoiceData(text, filename): ExtractionResult of extract,
\* by its four loops
extractLoops ==
  <<[kind |-> "capture", field |-> "invoiceNumber", patterns |-> extractInvoicePatterns],
    [kind |-> "capture", field |-> "date", patterns |-> extractDatePatterns],
    [kind |-> "vendor100", field |-> "vendor", patterns |-> extractVendorPatterns],
    [kind |-> "amount", field |-> "total", patterns |-> extractTotalPatterns]>>

extractInvoiceDataExtract(text, filename) ==
  ("filename" :> filename) @@ LoopsOf(text, extractLoops, 1)

(***************************************************************************)
(* Pattern sets of extract-enhanced (lib/extraction-patterns.ts)           *)
(***************************************************************************)

\* two words with \s* between them, under the i flag
Words(a, b) == WordI(a) \o <<Star(WhiteSpace)>> \o WordI(b)
\* \s*:?\s*
Colon == <<Star(WhiteSpace), Maybe({":"}), Star(WhiteSpace)>>
\* (?:number|#|no\.?)
NumberSign == Alt(<<WordI("number"), Lit(<<"#">>), WordI("no") \o <<Maybe({"."})>>>>)
\* ([A-Z0-9\-_]+) under the i flag
IdGroup == <<Open(1), C(IdChars, 1, -1), Close(1)>>
\* (\d{1,2}[\/\-]\d{1,2}[\/\-]\d{4})
DateGroup == <<Open(1)>> \o NumericDate \o <<Close(1)>>
\* (\d{4}[\/\-]\d{1,2}[\/\-]\d{1,2})
IsoDateGroup ==
  <<Open(1), C(Digit, 4, 4), C(Slash, 1, 1), C(Digit, 1, 2), C(Slash, 1, 1),
    C(Digit, 1, 2), Close(1)>>
\* ([A-Za-z\s&,.\-'()]+?)
NameGroup == <<Open(1), Lazy(NameChars, 1, -1), Close(1)>>

\* the regular expressions of a field; lastIndex is the lastIndex of those
\* with the g flag, which are objects every call of the module shares
Field(name, regexList) ==
  [field |-> name, regexList |-> regexList, global |-> FALSE, lastIndex |-> 0]
GlobalField(name, regexList) ==
  [field |-> name, regexList |-> regexList, global |-> TRUE, lastIndex |-> 0]

StandardInvoice ==
  [name |-> "Standard Invoice", premium |-> FALSE,
   patterns |-> <<
     Field("invoiceNumber", extractInvoicePatterns),
     Field("date", SubSeq(extractDatePatterns, 1, 3)),
     Field("vendor", SubSeq(extractVendorPatterns, 1, 2)),
     Field("total", <<TotalLabelled, DollarTotal>>) >>]

Receipt ==
  [name |-> "Receipt", premium |-> TRUE,
   patterns |-> <<
     Field("merchant", <<
       \* /^([A-Z\s&]+)$/m
       <<BolM, Open(1), Plus(Upper \cup WhiteSpace \cup {"&"}), Close(1), EolM>>,
       \* /(?:merchant|store|retailer)\s*:?\s*([A-Za-z\s&,.\-'()]+)/i
       <<Alt(<<WordI("merchant"), WordI("store"), WordI("retailer")>>)>> \o Colon
         \o <<Open(1), Plus(NameChars), Close(1)>> >>),
     Field("total", <<
       \* /(?:total|amount|sum)\s*:?\s*\$?\s*([\d,]+\.?\d*)/i
       <<Alt(<<WordI("total"), WordI("amount"), WordI("sum")>>)>> \o Colon \o DollarAmount(1),
       \* /\$\s*([\d,]+\.\d{2})(?:\s*$)/m
       <<One("$"), Star(WhiteSpace), Open(1), Plus(AmountChars), One("."),
         C(Digit, 2, 2), Close(1), Star(WhiteSpace), EolM>> >>),
     Field("date", <<DateGroup, IsoDateGroup>>),
     GlobalField("items", <<
       \* /^(.+?)\s+\$?([\d,]+\.?\d*)$/gm
       <<BolM, Open(1), Lazy(Dot, 1, -1), Close(1), Plus(WhiteSpace), Maybe({"$"}),
         Open(2), Plus(AmountChars), Maybe({"."}), Star(Digit), Close(2), EolM>> >>) >>]

PurchaseOrder ==
  [name |-> "Purchase Order", premium |-> TRUE,
   patterns |-> <<
     Field("poNumber", <<
       \* /(?:purchase\s*order|po\s*(?:number|#|no\.?))\s*:?\s*([A-Z0-9\-_]+)/i
       <<Alt(<<Words("purchase", "order"),
               WordI("po") \o <<Star(WhiteSpace), NumberSign>>>>)>> \o Colon \o IdGroup,
       \* /(?:^|\s)(PO-?[A-Z0-9\-_]+)/m
       <<Alt(<<<<BolM>>, <<C(WhiteSpace, 1, 1)>>>>), Open(1), One("P"), One("O"),
         Maybe({"-"}), Plus(Upper \cup Digit \cup {"-", "_"}), Close(1)>> >>),
     Field("vendor", <<
       \* /(?:vendor|supplier|from)\s*:?\s*([A-Za-z\s&,.\-'()]+?)(?:\n|$|\s{2,})/i
       <<Alt(<<WordI("vendor"), WordI("supplier"), WordI("from")>>)>> \o Colon \o NameGroup
         \o <<Alt(<<<<One("\n")>>, <<Eol>>, <<C(WhiteSpace, 2, -1)>>>>)>> >>),
     Field("total", <<
       \* /(?:total|grand\s*total|amount)\s*:?\s*\$?\s*([\d,]+\.?\d*)/i
       <<Alt(<<WordI("total"), Words("grand", "total"), WordI("amount")>>)>> \o Colon
         \o DollarAmount(1) >>),
     Field("deliveryDate", <<
       \* /(?:delivery\s*date|ship\s*date|expected)\s*:?\s*(\d{1,2}[\/\-]\d{1,2}[\/\-]\d{4})/i
       <<Alt(<<Words("delivery", "date"), Words("ship", "date"), WordI("expected")>>)>>
         \o Colon \o DateGroup >>) >>]

Contract ==
  [name |-> "Contract", premium |-> TRUE,
   patterns |-> <<
     Field("contractNumber", <<
       \* /(?:contract\s*(?:number|#|no\.?)|agreement\s*(?:number|#|no\.?))\s*:?\s*([A-Z0-9\-_]+)/i
       <<Alt(<<WordI("contract") \o <<Star(WhiteSpace), NumberSign>>,
               WordI("agreement") \o <<Star(WhiteSpace), NumberSign>>>>)>> \o Colon \o IdGroup >>),
     Field("parties", <<
       \* /(?:between|party\s*a|first\s*party)\s*:?\s*([A-Za-z\s&,.\-'()]+?)(?:\n|and|$)/i
       <<Alt(<<WordI("between"), Words("party", "a"), Words("first", "party")>>)>> \o Colon
         \o NameGroup \o <<Alt(<<<<One("\n")>>, WordI("and"), <<Eol>>>>)>>,
       \* /(?:and|party\s*b|second\s*party)\s*:?\s*([A-Za-z\s&,.\-'()]+?)(?:\n|$)/i
       <<Alt(<<WordI("and"), Words("party", "b"), Words("second", "party")>>)>> \o Colon
         \o NameGroup \o <<Alt(<<<<One("\n")>>, <<Eol>>>>)>> >>),
     Field("effectiveDate", <<
       \* /(?:effective\s*date|start\s*date|commenced)\s*:?\s*(\d{1,2}[\/\-]\d{1,2}[\/\-]\d{4})/i
       <<Alt(<<Words("effective", "date"), Words("start", "date"), WordI("commenced")>>)>>
         \o Colon \o DateGroup >>),
     Field("amount", <<
       \* /(?:amount|value|consideration)\s*:?\s*\$?\s*([\d,]+\.?\d*)/i
       <<Alt(<<WordI("amount"), WordI("value"), WordI("consideration")>>)>> \o Colon
         \o DollarAmount(1) >>) >>]

BankStatement ==
  [name |-> "Bank Statement", premium |-> TRUE,
   patterns |-> <<
     Field("accountNumber", <<
       \* /(?:account\s*(?:number|#|no\.?))\s*:?\s*([A-Z0-9\-_]+)/i
       WordI("account") \o <<Star(WhiteSpace), NumberSign>> \o Colon \o IdGroup >>),
     Field("balance", <<
       \* /(?:balance|available\s*balance)\s*:?\s*\$?\s*([\d,]+\.?\d*)/i
       <<Alt(<<WordI("balance"), Words("available", "balance")>>)>> \o Colon
         \o DollarAmount(1) >>),
     Field("statementDate", <<
       \* /(?:statement\s*date|as\s*of)\s*:?\s*(\d{1,2}[\/\-]\d{1,2}[\/\-]\d{4})/i
       <<Alt(<<Words("statement", "date"), Words("as", "of")>>)>> \o Colon \o DateGroup >>),
     GlobalField("transactions", <<
       \* /(\d{1,2}[\/\-]\d{1,2}[\/\-]\d{4})\s+(.+?)\s+([\-+]?\$?[\d,]+\.?\d*)/gm
       DateGroup \o <<Plus(WhiteSpace), Open(2), Lazy(Dot, 1, -1), Close(2),
         Plus(WhiteSpace), Open(3), Maybe({"-", "+"}), Maybe({"$"}), Plus(AmountChars),
         Maybe({"."}), Star(Digit), Close(3)>> >>) >>]

extractionPatterns == <<StandardInvoice, Receipt, PurchaseOrder, Contract, BankStatement>>

\* every pattern set, whatever the plan
AllPatterns(patterns, isPremium) == patterns

\* extractionPatterns.filter(pattern => !pattern.premium || isPremium)
AvailablePatterns(patterns, isPremium) ==
  SelectSeq(patterns, LAMBDA pattern : ~pattern.premium \/ isPremium)

getAvailablePatterns(isPremium) == AvailablePatterns(extractionPatterns, isPremium)

\* text.match(regex) for a regular expression with the g flag: the array of
\* the whole matches, found one after the other from lastIndex 0
RECURSIVE GlobalMatches(_, _, _)
MatchesAfter(re, s, m) ==
  IF ~m.ok THEN <<>>
  ELSE <<Whole(s, m)>>
         \o GlobalMatches(re, s, IF m.end = m.start THEN m.end + 1 ELSE m.end)
GlobalMatches(re, s, p) ==
  IF p > Len(s) + 1 THEN <<>> ELSE MatchesAfter(re, s, SearchFrom(re, s, p))

\* regex.exec repeated from the lastIndex the regular expression was left
\* with, which is left after the first match it finds
ExecFromLastIndex(text, re, from) ==
  [all |-> GlobalMatches(re, text, from + 1),
   lastIndex |-> IF SearchFrom(re, text, from + 1).ok
                 THEN SearchFrom(re, text, from + 1).end - 1 ELSE 0]

\* text.match(regex) for a regular expression with the g flag, called when
\* its lastIndex is from: lastIndex is
\* set to 0 whatever it was, the matches are collected until none is found,
\* and the search that finds none leaves lastIndex at 0
StringMatch(text, re, from) ==
  [all |-> GlobalMatches(re, text, 1), lastIndex |-> 0]

\* match[1]: capture group 1, and with the g flag the second whole match
Second(all) == IF Len(all) >= 2 THEN all[2] ELSE <<>>
MatchOne(text, re, global, from) ==
  IF global THEN Second(StringMatch(text, re, from).all) ELSE Captured(text, re)

\* the branch of the loop's body the field takes
FieldKind(field) ==
  IF field \in {"total", "amount", "balance"} THEN "amount"
  ELSE IF field \in {"vendor", "merchant", "parties"} THEN "vendor100"
  ELSE "capture"

\* for (const regex of regexList) { ... } of extractDataWithPatterns
RECURSIVE FirstRegex(_, _, _)
NextRegex(text, f, k, outcome) ==
  IF outcome[1] THEN outcome[2] ELSE FirstRegex(text, f, k + 1)
FirstRegex(text, f, k) ==
  IF k > Len(f.regexList) THEN NoFields
  ELSE NextRegex(text, f, k,
                 PatternOutcome(FieldKind(f.field), f.field,
                                MatchOne(text, f.regexList[k], f.global, f.lastIndex)))

\* for (const [field, regexList] of Object.entries(pattern.patterns))
RECURSIVE FieldsOf(_, _, _, _)
FieldsOf(text, fields, k, result) ==
  IF k > Len(fields) THEN result
  ELSE IF fields[k].field \in DOMAIN result /\ result[fields[k].field] # <<>>
       THEN FieldsOf(text, fields, k + 1, result)
       ELSE FieldsOf(text, fields, k + 1, FirstRegex(text, fields[k], 1) @@ result)

\* for (const pattern of patterns)
RECURSIVE PatternsOf(_, _, _, _)
PatternsOf(text, patterns, k, result) ==
  IF k > Len(patterns) THEN result
  ELSE PatternsOf(text, patterns, k + 1, FieldsOf(text, patterns[k].patterns, 1, result))

\* export function extractDataWithPatterns(text, patterns, filename)
extractDataWithPatterns(text, patterns, filename) ==
  PatternsOf(text, patterns, 1, "filename" :> filename)


\* the classifier with the test of the contract before the test of the
\* purchase order
detectContractFirst(text) ==
  LET lowerText == toLowerCase(text)
  IN IF includes(lowerText, Chars("contract")) \/ includes(lowerText, Chars("agreement"))
     THEN "Contract"
     ELSE IF includes(lowerText, Chars("purchase order"))
             \/ includes(lowerText, Chars("po number"))
     THEN "Purchase Order"
     ELSE IF includes(lowerText, Chars("bank statement"))
             \/ includes(lowerText, Chars("account balance"))
     THEN "Bank Statement"
     ELSE IF includes(lowerText, Chars("receipt")) /\ ~includes(lowerText, Chars("invoice"))
     THEN "Receipt"
     ELSE "Standard Invoice"

\* function detectDocumentType(text: string): string
detectDocumentType(text) ==
  LET lowerText == toLowerCase(text)
  IN IF includes(lowerText, Chars("purchase order"))
        \/ includes(lowerText, Chars("po number"))
     THEN "Purchase Order"
     ELSE IF includes(lowerText, Chars("contract")) \/ includes(lowerText, Chars("agreement"))
     THEN "Contract"
     ELSE IF includes(lowerText, Chars("bank statement"))
             \/ includes(lowerText, Chars("account balance"))
     THEN "Bank Statement"
     ELSE IF includes(lowerText, Chars("receipt")) /\ ~includes(lowerText, Chars("invoice"))
     THEN "Receipt"
     ELSE "Standard Invoice"

\* availablePatterns.find(p => p.name === name), as the list of the finds
PatternsNamed(availablePatterns, name) ==
  SelectSeq(availablePatterns, LAMBDA p : p.name = name)

\* result = extractDataWithPatterns(text, [pattern], filename);
\* result.documentType = documentType; result.extractionPattern = pattern.name
ExtractedWith(text, filename, documentType, pattern) ==
  ("documentType" :> documentType) @@ ("extractionPattern" :> pattern.name)
    @@ extractDataWithPatterns(text, <<pattern>>, filename)

\* const pattern = find(documentType) || find('Standard Invoice');
\* if (!pattern) throw ..., and the catch block
ExtractedFound(text, filename, documentType, named, standard) ==
  IF named = <<>> /\ standard = <<>>
  THEN ("filename" :> filename)
         @@ ("error" :> <<"Extraction failed: ", "No extraction pattern available">>)
  ELSE ExtractedWith(text, filename, documentType,
                     IF named # <<>> THEN Head(named) ELSE Head(standard))

ExtractedTyped(text, filename, documentType, availablePatterns) ==
  ExtractedFound(text, filename, documentType,
                 PatternsNamed(availablePatterns, documentType),
                 PatternsNamed(availablePatterns, "Standard Invoice"))

\* function enhancedExtractData(text, filename, isPremium): ExtractionResult
enhancedExtractData(text, filename, isPremium) ==
  ExtractedTyped(text, filename, detectDocumentType(text), getAvailablePatterns(isPremium))

(***************************************************************************)
(* The requests' gates (POST of the four routes)                           *)
(***************************************************************************)

\* function getUserSubscription(request): userAgent.includes('Premium') ||
\* process.env.NODE_ENV === 'development'
getUserSubscription(request) ==
  includes(request.userAgent, Chars("Premium")) \/ request.nodeEnv = "development"

isPremium(request) == request.route = "enhanced" /\ getUserSubscription(request)

\* lib/subscription-auth.ts, getUserSubscription: premium when the header is
\* 'Bearer ' and a token that auth.getUser accepts for a user with a row of
\* status 'active' in subscriptions; ActiveTokens are those tokens
BearerPrefix == Chars("Bearer ")
ActiveTokens == {Chars("tok-active")}
replaceBearer(authHeader) == SubSeq(authHeader, Len(BearerPrefix) + 1, Len(authHeader))
getAuthenticatedSubscription(request) ==
  /\ startsWith(request.authorization, BearerPrefix)
  /\ replaceBearer(request.authorization) \in ActiveTokens

\* contentLength && parseInt(contentLength) > 50 * 1024 * 1024, and
\* > maxSize (isPremium ? 100MB : 10MB); 0 stands for an absent header
ContentTooLarge(request) ==
  CASE request.route = "extract" -> request.contentLength > 50 * MB
    [] request.route = "enhanced" ->
         request.contentLength > (IF isPremium(request) THEN 100 * MB ELSE 10 * MB)
    [] OTHER -> FALSE

\* the ceiling of files.length
maxFiles(request) ==
  CASE request.route = "extract" -> MaxFilesExtract
    [] request.route = "simple" -> MaxFilesSimple
    [] request.route = "ocr" -> MaxFilesOcr
    [] OTHER -> IF isPremium(request) THEN MaxFilesPremium ELSE MaxFilesFree

\* the ceiling of file.size
maxFileSize(request) ==
  IF request.route = "enhanced"
  THEN (IF isPremium(request) THEN 50 * MB ELSE 2 * MB)
  ELSE 10 * MB

\* file.name || 'Unknown file'
fileName(file) == IF file.name = <<>> THEN UnknownFile ELSE file.name

\* fileType.startsWith('image/') ||
\*   fileName.toLowerCase().match(/\.(png|jpg|jpeg|gif|bmp|webp)$/)
imageExtension ==
  <<One("."), Open(1),
    Alt(<<Word("png"), Word("jpg"), Word("jpeg"), Word("gif"), Word("bmp"), Word("webp")>>),
    Close(1), Eol>>
isImage(file) ==
  startsWith(file.type, ImageSlash) \/ test(imageExtension, toLowerCase(fileName(file)))

\* fileType === 'application/pdf' || fileName.toLowerCase().endsWith('.pdf'),
\* in the other routes as its negation,
\* file.type !== 'application/pdf' && !file.name?.toLowerCase().endsWith('.pdf')
isPDF(file) == file.type = PdfType \/ endsWith(toLowerCase(file.name), DotPdf)

\* the loop without the check of the media type
TypeAcceptedAlways(request, file) == TRUE

\* the media-type rule of the route
TypeAccepted(request, file) ==
  IF request.route = "ocr" THEN isPDF(file) \/ isImage(file) ELSE isPDF(file)

SizeAccepted(request, file) == ~(file.size > maxFileSize(request))

(***************************************************************************)
(* Results                                                                 *)
(***************************************************************************)
\* an error result that keeps a data field
ErrorWithNotes(name, msg) ==
  ("filename" :> name) @@ ("error" :> msg) @@ ("notes" :> <<" [", "OCR:", " Low confidence]">>)

ErrorResult(name, msg) == ("filename" :> name) @@ ("error" :> msg)

\* the error a route gives a file whose media type it does not accept
TypeError(request, file) ==
  CASE request.route \in {"extract", "enhanced"} ->
         <<"Error: ">> \o fileName(file) \o <<" is not a PDF file">>
    [] request.route = "simple" -> <<"File is not a PDF">>
    [] OTHER -> <<"File must be a PDF or image (PNG, JPG, etc.)">>

\* the error a route gives a file over its size ceiling
SizeError(request, file) ==
  CASE request.route = "extract" ->
         <<"Error: ">> \o fileName(file) \o <<" is too large (max 10MB per file)">>
    [] request.route = "enhanced" ->
         <<"Error: ">> \o fileName(file) \o <<" is too large (max ">>
           \o (IF isPremium(request) THEN <<"50MB for premium plan)">>
               ELSE <<"2MB for free plan)">>)
    [] request.route = "simple" -> <<"File too large (max 10MB)">>
    [] OTHER -> <<"File too large for OCR processing (max 10MB)">>

\* the catch block of the loop over the files: extract and extract-enhanced
\* prefix the message, extract-simple and extract-ocr pass it on
CaughtError(request, file, msg) ==
  IF request.route \in {"extract", "enhanced"}
  THEN <<"Error processing ">> \o fileName(file) \o <<": ">> \o msg
  ELSE msg

\* extractedData.notes += ' [OCR: High|Medium|Low confidence]'
OcrNotes(text) ==
  <<" [", "OCR:",
    IF Len(text) > 1000 THEN " High confidence]"
    ELSE IF Len(text) > 100 THEN " Medium confidence]"
    ELSE " Low confidence]">>

\* what the try block of the loop pushes once the text is acquired
Extracted(route, premium, text, name) ==
  CASE route = "extract" -> extractInvoiceDataExtract(text, name)
    [] route = "simple" -> extractInvoiceData(text, name)
    [] route = "enhanced" -> enhancedExtractData(text, name, premium)
    [] OTHER -> ("notes" :> OcrNotes(text)) @@ extractInvoiceData(text, name)

\* Extracted for each text the acquisition yields, evaluated once: the file's
\* name is only stored in the result
ExtractedOf ==
  [route \in Routes, premium \in BOOLEAN, text \in AcquirableTexts |->
     Extracted(route, premium, text, <<>>)]

ExtractedData(request, file, text) ==
  ("filename" :> fileName(file)) @@ ExtractedOf[request.route, isPremium(request), text]

\* !e.error
Succeeded(e) == "error" \notin DOMAIN e
\* e.notes?.includes('OCR:')
OcrNoted(e) == "notes" \in DOMAIN e /\ MessageIncludes(e.notes, "OCR:")

\* extractions.length: the count without the filter
countedExtractions(es) == Len(es)
\* extractions.filter(e => !e.error).length
successfulExtractions(es) == Cardinality({k \in DOMAIN es : Succeeded(es[k])})
\* extractions.filter(e => e.notes?.includes('OCR:')).length
ocrProcessed(es) == Cardinality({k \in DOMAIN es : OcrNoted(es[k])})

(***************************************************************************)
(* OCR text acquisition (extractTextFromPDFWithOCR, performOCRExtraction,  *)
(* extractTextFromImageWithOCR)                                            *)
(***************************************************************************)
\* the test of the native text with >= in the place of >
NativeAtLeastThreshold(native) ==
  native.ok /\ native.text # <<>> /\ Len(trim(native.text)) >= NativeTextThreshold

\* if (textResult && textResult.trim().length > 50) return textResult
NativeSufficient(native) ==
  native.ok /\ native.text # <<>> /\ Len(trim(native.text)) > NativeTextThreshold

\* the catch (alternativeError) block throwing the error of an empty recognition
ConversionErrorGeneric(alt) == <<"OCR could not extract any readable text">>

\* the catch (alternativeError) block of performOCRExtraction
ConversionError(alt) ==
  IF MessageIncludes(Wrap("Alternative PDF conversion failed: ", <<alt.error>>),
                     "Object.defineProperty called on non-object")
  THEN <<"PDF file appears to be corrupted, password-protected, or in an unsupported format">>
  ELSE <<"All PDF conversion methods failed - file may be corrupted or in unsupported format">>

\* the ocrPromise of performOCRExtraction: recognize of the first image; an
\* error of recognize is caught and the page skipped
OcrPromise(recognized) ==
  LET allText == IF recognized.kind = "text" /\ trim(recognized.text) # <<>>
                 THEN trim(recognized.text) \o <<"\n">> ELSE <<>>
  IN IF trim(allText) = <<>>
     THEN Failed(<<"OCR could not extract any readable text">>)
     ELSE Ok(trim(allText))

\* the catch block of performOCRExtraction
OcrFailed(msg) == Failed(Wrap("OCR processing failed: ", msg))

\* what extractTextFromPDFWithOCR does with the outcome of performOCRExtraction:
\* if (!ocrText || ocrText.trim().length < 20) throw ...; and its catch block
OcrAcquired(ocr) ==
  LET checked == IF ~ocr.ok THEN ocr
                 ELSE IF ocr.text = <<>> \/ Len(trim(ocr.text)) < OcrTextMinimum
                      THEN Failed(<<"OCR extraction failed to find readable text">>)
                      ELSE ocr
  IN IF checked.ok THEN checked ELSE Failed(Wrap("Extraction failed: ", checked.error))

\* the ocrPromise of extractTextFromImageWithOCR, and its catch block
ImageOcrPromise(recognized) ==
  IF recognized.kind = "throws" THEN Failed(<<recognized.error>>)
  ELSE IF recognized.text = <<>> \/ trim(recognized.text) = <<>>
       THEN Failed(<<"OCR could not extract any readable text from image">>)
       ELSE Ok(trim(recognized.text))

ImageOcrAcquired(ocr) ==
  IF ocr.ok THEN ocr ELSE Failed(Wrap("Image OCR failed: ", ocr.error))

\* setTimeout(() => reject(new Error('OCR timed out')), OCR_TIMEOUT_MS)
TimedOut == Failed(<<"OCR timed out">>)

(***************************************************************************)
(* The state of a request                                                  *)
(***************************************************************************)
VARIABLES
  request,      \* the route, and the headers and environment the gates read
  files,        \* formData.getAll('files')
  pc,           \* where POST stands
  idx,          \* the file the loop over the files is at
  extractions,  \* const extractions: ExtractionResult[]
  response,     \* the response POST returns
  cur,          \* what has been done for the file the loop is at
  trace,        \* what was done for each file the loop has finished
  timers,       \* the files whose OCR deadline timer is set and has not fired
  parserText,   \* the text given to extractLineItems, or to the extraction
  parser,       \* the state of the loop of extractLineItems
  lastIndex,    \* lastIndex of the regular expressions with the g flag, by field
  runs,         \* the results of the calls of the extraction on one text
  csvRows       \* const csvRows: string[] of handleExportCSV

vars == <<request, files, pc, idx, extractions, response, cur, trace, timers,
          parserText, parser, lastIndex, runs, csvRows>>

batchVars == <<request, files, pc, idx, extractions, response, cur, trace, timers>>

UserAgentPlain == Chars("curl")
UserAgentPremium == Chars("PremiumBot")

\* the Authorization header of a caller with an active subscription
AuthorizationActive == Chars("Bearer tok-active")

\* the headers the routes and the subscription check read; <<>> stands for
\* an absent Authorization header
Requests ==
  { [route |-> "extract", userAgent |-> UserAgentPlain, nodeEnv |-> "production",
     contentLength |-> c, authorization |-> <<>>] : c \in {0, 101 * MB} }
  \cup { [route |-> r, userAgent |-> UserAgentPlain, nodeEnv |-> "production",
          contentLength |-> 0, authorization |-> <<>>] : r \in {"simple", "ocr"} }
  \cup { [route |-> "enhanced", userAgent |-> a[1], nodeEnv |-> a[2], contentLength |-> c,
          authorization |-> <<>>] :
           a \in {<<UserAgentPlain, "production">>, <<UserAgentPremium, "production">>,
                  <<UserAgentPlain, "development">>},
           c \in {0, 11 * MB, 101 * MB} }
  \cup { [route |-> "enhanced", userAgent |-> UserAgentPlain, nodeEnv |-> "production",
          contentLength |-> 0, authorization |-> AuthorizationActive] }

\* batches of up to MaxBatch files, and the batch one file over the ceiling
Batches(req) ==
  UNION {[1..n -> FileKinds] : n \in 0..MaxBatch}
    \cup {[k \in 1..(maxFiles(req) + 1) |-> FillerFile]}

NoResponse ==
  [status |-> 0, error |-> <<>>, totalFiles |-> 0, successfulExtractions |-> 0,
   ocrProcessed |-> 0]

NewFile ==
  [read |-> FALSE, native |-> "none", nativeText |-> <<>>, ocrCalls |-> 0,
   rasterCalls |-> 0, raster |-> "none", altRasterCalls |-> 0, altRaster |-> "none", recognizeCalls |-> 0, timedOut |-> FALSE,
   created |-> 0, terminated |-> 0, method |-> "none", text |-> <<>>]

NoParser == ParserStart(<<>>)

BatchInit ==
  /\ request \in Requests
  /\ files \in Batches(request)
  /\ pc = "gate"
  /\ idx = 0
  /\ extractions = <<>>
  /\ response = NoResponse
  /\ cur = NewFile
  /\ trace = <<>>
  /\ timers = {}

\* the fields whose regular expression has the g flag
GlobalFields == {"items", "transactions"}
\* a regular expression is created with lastIndex 0
NoLastIndex == [f \in GlobalFields |-> 0]

\* nothing extracted outside a batch, nothing exported
ExportIdle == lastIndex = NoLastIndex /\ runs = <<>> /\ csvRows = <<>>

Init ==
  /\ BatchInit
  /\ parserText = <<>>
  /\ parser = NoParser
  /\ ExportIdle

(***************************************************************************)
(* POST: the batch gate                                                    *)
(***************************************************************************)
ParserIdle == UNCHANGED <<parserText, parser, lastIndex, runs, csvRows>>

BatchError(status, msg) ==
  /\ response' = [NoResponse EXCEPT !.status = status, !.error = msg]
  /\ pc' = "done"
  /\ UNCHANGED <<request, files, idx, extractions, cur, trace, timers>>
  /\ ParserIdle

\* extract and extract-enhanced: the content-length check, status 413
RejectRequest ==
  /\ pc = "gate"
  /\ ContentTooLarge(request)
  /\ BatchError(413, <<"Files too large">>)

\* if (!files || files.length === 0) and if (files.length > maxFiles): status 400
RejectBatch ==
  /\ pc = "gate"
  /\ ~ContentTooLarge(request)
  /\ Len(files) = 0 \/ Len(files) > maxFiles(request)
  /\ BatchError(400, IF Len(files) = 0 THEN <<"No files provided">>
                     ELSE <<"Maximum files allowed">>)

\* the loop entered without the check of files.length against the ceiling
AcceptAnyBatch ==
  /\ pc = "gate"
  /\ ~ContentTooLarge(request)
  /\ Len(files) > 0
  /\ pc' = "file"
  /\ idx' = 1
  /\ UNCHANGED <<request, files, extractions, response, cur, trace, timers>>
  /\ ParserIdle

\* const extractions = []; for (const file of files) {
AcceptBatch ==
  /\ pc = "gate"
  /\ ~ContentTooLarge(request)
  /\ Len(files) > 0
  /\ ~(Len(files) > maxFiles(request))
  /\ pc' = "file"
  /\ idx' = 1
  /\ UNCHANGED <<request, files, extractions, response, cur, trace, timers>>
  /\ ParserIdle

(***************************************************************************)
(* POST: the loop over the files                                           *)
(***************************************************************************)
\* the result put in front of the list (unshift) in the place of push
PushInFront(result, done) ==
  /\ extractions' = <<result>> \o extractions
  /\ trace' = <<done>> \o trace
  /\ cur' = NewFile
  /\ idx' = idx + 1
  /\ pc' = "file"
  /\ UNCHANGED <<request, files, response>>
  /\ ParserIdle

\* extractions.push(result) and the loop's next iteration
Push(result, done) ==
  /\ extractions' = Append(extractions, result)
  /\ trace' = Append(trace, done)
  /\ cur' = NewFile
  /\ idx' = idx + 1
  /\ pc' = "file"
  /\ UNCHANGED <<request, files, response>>
  /\ ParserIdle

\* the error of a file rethrown to the catch block of POST: status 500
RethrowError(msg, done) == BatchError(500, <<"Internal server error">>)

PushError(msg, done) == Push(ErrorResult(fileName(files[idx]), msg), done)

\* the two checks before the try block: extractions.push({filename, error}); continue
RejectFile ==
  /\ pc = "file"
  /\ idx <= Len(files)
  /\ ~TypeAccepted(request, files[idx]) \/ ~SizeAccepted(request, files[idx])
  /\ PushError(IF ~TypeAccepted(request, files[idx])
               THEN TypeError(request, files[idx])
               ELSE SizeError(request, files[idx]), cur)
  /\ UNCHANGED timers

\* the file read before the two checks are made
ReadFileUnchecked ==
  /\ pc = "file"
  /\ idx <= Len(files)
  /\ cur' = [cur EXCEPT !.read = TRUE]
  /\ pc' = IF request.route = "ocr" /\ isImage(files[idx]) THEN "imageOcr" ELSE "native"
  /\ UNCHANGED <<request, files, idx, extractions, response, trace, timers>>
  /\ ParserIdle

\* const arrayBuffer = await file.arrayBuffer()
ReadFile ==
  /\ pc = "file"
  /\ idx <= Len(files)
  /\ TypeAccepted(request, files[idx])
  /\ SizeAccepted(request, files[idx])
  /\ cur' = [cur EXCEPT !.read = TRUE]
  /\ pc' = IF request.route = "ocr" /\ isImage(files[idx]) THEN "imageOcr" ELSE "native"
  /\ UNCHANGED <<request, files, idx, extractions, response, trace, timers>>
  /\ ParserIdle

\* await extractTextFromPDF(arrayBuffer), and what the route does with its
\* outcome: the other routes push the extracted data or the error;
\* extract-ocr returns the text when it is sufficient and goes on to OCR
\* when it is not or when the extraction failed.  pdf-parse is called only
\* when the first attempt failed.
NativeText ==
  /\ pc = "native"
  /\ \E primary \in PrimaryOutcomes(files[idx]) :
       \E fallback \in
            (IF PrimaryText(request.route, files[idx], primary).ok
                \/ request.route \in {"extract", "enhanced"}
             THEN {Throws("not called")} ELSE FallbackOutcomes(files[idx])) :
         LET native == extractTextFromPDF(request.route, files[idx], primary, fallback)
             done == [cur EXCEPT !.native = IF native.ok THEN "ok" ELSE "failed",
                                 !.nativeText = native.text]
         IN IF request.route = "ocr" /\ ~NativeSufficient(native)
            THEN /\ cur' = done
                 /\ pc' = "ocr"
                 /\ UNCHANGED <<request, files, idx, extractions, response, trace>>
                 /\ ParserIdle
            ELSE IF native.ok
            THEN Push(ExtractedData(request, files[idx], native.text),
                      [done EXCEPT !.method = "native", !.text = native.text])
            ELSE PushError(CaughtError(request, files[idx], native.error), done)
  /\ UNCHANGED timers

\* performOCRExtraction: const worker = await createWorker('eng')
CreateWorker ==
  /\ pc = "ocr"
  /\ \E started \in BOOLEAN :
       IF started
       THEN /\ cur' = [cur EXCEPT !.ocrCalls = @ + 1, !.created = @ + 1]
            /\ pc' = "raster"
            /\ UNCHANGED <<request, files, idx, extractions, response, trace>>
            /\ ParserIdle
       ELSE PushError(OcrAcquired(OcrFailed(<<"createWorker failed">>)).error,
                      [cur EXCEPT !.ocrCalls = @ + 1])
  /\ UNCHANGED timers

\* pdfImages = await convertPDFToImages(arrayBuffer); when it yields images
\* the recognition starts and the deadline timer is set
Rasterize ==
  /\ pc = "raster"
  /\ \E raster \in RasterOutcomes(files[idx]) :
       /\ cur' = [cur EXCEPT !.rasterCalls = @ + 1, !.raster = raster.kind]
       /\ IF raster.kind = "images"
          THEN pc' = "recognize" /\ timers' = timers \cup {idx}
          ELSE pc' = "altRaster" /\ timers' = timers
  /\ UNCHANGED <<request, files, idx, extractions, response, trace>>
  /\ ParserIdle

\* pdfImages = await convertPDFToImagesAlternative(arrayBuffer, filename);
\* when it fails too the error leaves performOCRExtraction before the try
\* block whose finally terminates the worker
AltRasterize ==
  /\ pc = "altRaster"
  /\ \E alt \in AltRasterOutcomes(files[idx]) :
       LET done == [cur EXCEPT !.altRasterCalls = @ + 1, !.altRaster = alt.kind]
       IN IF alt.kind = "images"
          THEN /\ cur' = done
               /\ pc' = "recognize"
               /\ timers' = timers \cup {idx}
               /\ UNCHANGED <<request, files, idx, extractions, response, trace>>
               /\ ParserIdle
          ELSE /\ PushError(OcrAcquired(OcrFailed(ConversionError(alt))).error, done)
               /\ UNCHANGED timers

\* what the loop pushes for the outcome of an OCR acquisition
PushAcquired(acquired, method, done) ==
  IF acquired.ok
  THEN Push(ExtractedData(request, files[idx], acquired.text),
            [done EXCEPT !.method = method, !.text = acquired.text])
  ELSE PushError(acquired.error, done)

\* Promise.race([ocrPromise, timeoutPromise]) won by ocrPromise; finally
\* { await worker.terminate() }.  The timer is not cleared.
Recognize ==
  /\ pc = "recognize"
  /\ \E recognized \in RecognizeOutcomes :
       LET ocr == OcrPromise(recognized)
       IN PushAcquired(OcrAcquired(IF ocr.ok THEN ocr ELSE OcrFailed(ocr.error)), "pdfOcr",
                       [cur EXCEPT !.recognizeCalls = @ + 1, !.terminated = @ + 1])
  /\ UNCHANGED timers

\* the deadline answered by a second recognition in the place of an error
DeadlineRetried ==
  /\ pc = "recognize"
  /\ idx \in timers
  /\ timers' = timers \ {idx}
  /\ cur' = [cur EXCEPT !.recognizeCalls = @ + 1, !.timedOut = TRUE]
  /\ UNCHANGED <<request, files, pc, idx, extractions, response, trace>>
  /\ ParserIdle

\* Promise.race won by timeoutPromise: the timer of the file fires while
\* worker.recognize has not returned
Deadline ==
  /\ pc = "recognize"
  /\ idx \in timers
  /\ timers' = timers \ {idx}
  /\ PushError(OcrAcquired(OcrFailed(TimedOut.error)).error,
               [cur EXCEPT !.recognizeCalls = @ + 1, !.terminated = @ + 1,
                           !.timedOut = TRUE])

\* extractTextFromImageWithOCR: const worker = await createWorker('eng'),
\* worker.recognize(imageData) is started and the deadline timer is set
CreateImageWorker ==
  /\ pc = "imageOcr"
  /\ \E started \in BOOLEAN :
       IF started
       THEN /\ cur' = [cur EXCEPT !.ocrCalls = @ + 1, !.created = @ + 1]
            /\ pc' = "imageRecognize"
            /\ timers' = timers \cup {idx}
            /\ UNCHANGED <<request, files, idx, extractions, response, trace>>
            /\ ParserIdle
       ELSE /\ PushError(ImageOcrAcquired(Failed(<<"createWorker failed">>)).error,
                         [cur EXCEPT !.ocrCalls = @ + 1])
            /\ UNCHANGED timers

\* Promise.race won by ocrPromise, and the finally block
ImageRecognize ==
  /\ pc = "imageRecognize"
  /\ \E recognized \in RecognizeOutcomes :
       PushAcquired(ImageOcrAcquired(ImageOcrPromise(recognized)), "imageOcr",
                    [cur EXCEPT !.recognizeCalls = @ + 1, !.terminated = @ + 1])
  /\ UNCHANGED timers

\* Promise.race won by timeoutPromise
ImageDeadline ==
  /\ pc = "imageRecognize"
  /\ idx \in timers
  /\ timers' = timers \ {idx}
  /\ PushError(ImageOcrAcquired(TimedOut).error,
               [cur EXCEPT !.recognizeCalls = @ + 1, !.terminated = @ + 1,
                           !.timedOut = TRUE])

\* the timer of a file whose race is over fires: it rejects a promise that
\* nothing waits for any more
StaleTimer ==
  /\ \E i \in timers :
       /\ ~(i = idx /\ pc \in {"recognize", "imageRecognize"})
       /\ timers' = timers \ {i}
  /\ UNCHANGED <<request, files, pc, idx, extractions, response, cur, trace>>
  /\ ParserIdle

\* return NextResponse.json({ extractions, metadata })
Respond ==
  /\ pc = "file"
  /\ idx > Len(files)
  /\ response' = [status |-> 200, error |-> <<>>,
                  totalFiles |-> Len(files),
                  successfulExtractions |-> successfulExtractions(extractions),
                  ocrProcessed |-> IF request.route = "ocr"
                                   THEN ocrProcessed(extractions) ELSE 0]
  /\ pc' = "done"
  /\ UNCHANGED <<request, files, idx, extractions, cur, trace, timers>>
  /\ ParserIdle

Next ==
  \/ RejectRequest
  \/ RejectBatch
  \/ AcceptBatch
  \/ RejectFile
  \/ ReadFile
  \/ NativeText
  \/ CreateWorker
  \/ Rasterize
  \/ AltRasterize
  \/ Recognize
  \/ Deadline
  \/ CreateImageWorker
  \/ ImageRecognize
  \/ ImageDeadline
  \/ StaleTimer
  \/ Respond

Spec == Init /\ [][Next]_vars

(***************************************************************************)
(* The line-item parser on its own: extractLineItems, one iteration of its *)
(* loop over the lines at a time, on texts drawn from a pool of lines      *)
(***************************************************************************)
\* the number of lines of the mixed texts, and the number of rows that
\* follow the header in the tables of valid rows
MaxLines == 3
MaxRows == 21

HeaderLine == Chars("Item Qty Price Amount")
QuantityRow == Chars("Widget ABCD 3 10.00 30.00")
AmountRow == Chars("Consulting fee $1,200.50")
QuantityFirstRow == Chars("2 Premium support 50.00 100.00")
ZeroAmountRow == Chars("Free sample unit 0.00")
NoAmountRow == Chars("Widget ABCD 3 10.00 ,")
NegativeAmountRow == Chars("Refund voucher A -5.00")
ShortDescriptionRow == Chars("ab         1.00")
FooterLine == Chars("Total: 30.00")
PlainLine == Chars("  Ship to: Main St ")

PoolLines ==
  {HeaderLine, QuantityRow, AmountRow, QuantityFirstRow, ZeroAmountRow, NoAmountRow,
   NegativeAmountRow, ShortDescriptionRow, FooterLine, PlainLine}

\* a table whose row has a description of fewer than 10 characters, followed
\* by the line of the subtotal
ScenarioHeader == Chars("Description Qty Price Amount")
ScenarioRow == Chars("Widget A 3 10.00 30.00")
ScenarioFooter == Chars("Subtotal: 30.00")
ScenarioText == join(<<ScenarioHeader, ScenarioRow, ScenarioFooter>>)

\* a table, the line that ends it, and a second table after it
TwoTablesText == join(<<PlainLine, HeaderLine, QuantityRow, FooterLine, HeaderLine, AmountRow>>)

\* the header followed by n valid rows
TableOf(n) ==
  join(<<HeaderLine>> \o [k \in 1..n |-> IF k % 2 = 1 THEN QuantityRow ELSE AmountRow])

\* a row of quantity, description, unit price and amount without decimals
WholeNumbersRow == Chars("2 Premium Widget 10 20")
QuantityFirstText == join(<<HeaderLine, WholeNumbersRow>>)

\* a row whose quantity is 0
ZeroQuantityRow == Chars("Widget ABCD 0 10.00 30.00")
ZeroQuantityText == join(<<HeaderLine, ZeroQuantityRow>>)

ParserTexts ==
  {join(ls) : ls \in UNION {[1..n -> PoolLines] : n \in 0..MaxLines}}
    \cup {TableOf(n) : n \in 0..MaxRows}
    \cup {ScenarioText, TwoTablesText, QuantityFirstText, ZeroQuantityText}

InitLI ==
  /\ parserText \in ParserTexts
  /\ parser = ParserStart(parserText)
  /\ request = [route |-> "simple", userAgent |-> UserAgentPlain, nodeEnv |-> "production",
                contentLength |-> 0, authorization |-> <<>>]
  /\ files = <<>>
  /\ pc = "parser"
  /\ idx = 0
  /\ extractions = <<>>
  /\ response = NoResponse
  /\ cur = NewFile
  /\ trace = <<>>
  /\ timers = {}
  /\ ExportIdle

\* one iteration of the loop over the lines
ScanLines ==
  /\ parser.pc = "scan"
  /\ parser.i <= Len(parser.lines)
  /\ parser' = ParserStep(parser)
  /\ UNCHANGED <<parserText, request, files, pc, idx, extractions, response, cur, trace,
                 timers, lastIndex, runs, csvRows>>

\* return lineItems, after the last line
ReturnLineItems ==
  /\ parser.pc = "scan"
  /\ parser.i > Len(parser.lines)
  /\ parser' = ParserStep(parser)
  /\ UNCHANGED <<parserText, request, files, pc, idx, extractions, response, cur, trace,
                 timers, lastIndex, runs, csvRows>>

NextLI == ScanLines \/ ReturnLineItems

SpecLI == InitLI /\ [][NextLI]_vars

(***************************************************************************)
(* The extraction on its own: classification, field extraction and line    *)
(* items of one acquired text, called again on the same text, for every    *)
(* route and plan                                                          *)
(***************************************************************************)
\* the number of calls of the extraction on the text
MaxRuns == 2

\* lines that hold the words the classifier looks for, and lines that hold
\* amounts of tax and totals that are and are not valid
SampleLines ==
  { Chars("Purchase Order PO-778"), Chars("PO Number: 5541"), Chars("CONTRACT No: C-9"),
    Chars("Service Agreement"), Chars("Bank Statement"), Chars("Account Balance: 150.75"),
    Chars("RECEIPT"), Chars("Invoice INV-1001"),
    Chars("Tax: 2.40"), Chars("Tax Rate: 5%"), Chars("Tax: 0.00"),
    Chars("Total: 0.00"), Chars("$ 12.50") }

\* a receipt of three articles and a statement of three transactions
ReceiptText ==
  join(<<Chars("RECEIPT"), Chars("Coffee 3.50"), Chars("Bagel 2.25"), Chars("Tea 1.00")>>)
StatementText ==
  join(<<Chars("Bank Statement"), Chars("01/02/2024 Deposit 100.00"),
         Chars("01/03/2024 Coffee -3.50"), Chars("01/04/2024 Rent -900.00")>>)

SampleTexts ==
  {<<>>} \cup SampleLines \cup {join(<<a, b>>) : a, b \in SampleLines}
    \cup {ReceiptText, StatementText, TextInvoice, TextNoise, ScenarioText}

\* the requests whose plan or route makes a difference to the extraction
SampleRequests == {r \in Requests : r.contentLength = 0}

\* the name the results carry
SampleName == Chars("a.pdf")

\* extractionPatterns as the calls so far left it: the regular expressions
\* with the g flag hold the lastIndex of the state
FieldAt(f, li) == IF f.global THEN [f EXCEPT !.lastIndex = li[f.field]] ELSE f
FieldsAt(fields, li) == [j \in DOMAIN fields |-> FieldAt(fields[j], li)]
PatternAt(pattern, li) == [pattern EXCEPT !.patterns = FieldsAt(pattern.patterns, li)]
PatternsAt(li) == [k \in DOMAIN extractionPatterns |-> PatternAt(extractionPatterns[k], li)]

\* what the route's extraction returns for the text
ExtractedAt(req, text, li) ==
  IF req.route = "enhanced"
  THEN ExtractedTyped(text, SampleName, detectDocumentType(text),
                      AvailablePatterns(PatternsAt(li), isPremium(req)))
  ELSE Extracted(req.route, FALSE, text, SampleName)

\* the field f of the pattern set, as the list of the fields of that name
FieldNamed(pattern, f) == SelectSeq(pattern.patterns, LAMBDA x : x.field = f)

\* lastIndex of the regular expression of field f after the call: the set
\* applied matches each of its fields' regular expressions against the text
LastIndexOf(text, fields, old) ==
  IF fields = <<>> THEN old
  ELSE StringMatch(text, Head(fields).regexList[1], old).lastIndex
LastIndexAfter(text, applied, li) ==
  [f \in GlobalFields |->
     LastIndexOf(text, IF applied = <<>> THEN <<>> ELSE FieldNamed(Head(applied), f), li[f])]

\* the pattern set a result names, as the list of the sets of that name
AppliedTo(result) ==
  IF "extractionPattern" \in DOMAIN result
  THEN PatternsNamed(extractionPatterns, result.extractionPattern) ELSE <<>>

InitEX ==
  /\ request \in SampleRequests
  /\ parserText \in SampleTexts
  /\ parser = NoParser
  /\ files = <<>>
  /\ pc = "extract"
  /\ idx = 0
  /\ extractions = <<>>
  /\ response = NoResponse
  /\ cur = NewFile
  /\ trace = <<>>
  /\ timers = {}
  /\ ExportIdle

\* the call lands in runs and leaves its lastIndex to the next call
Called(text, result, li) ==
  /\ runs' = Append(runs, result)
  /\ lastIndex' = LastIndexAfter(text, AppliedTo(result), li)

\* one call of the route's extraction on the text: extractInvoiceData, or
\* enhancedExtractData with the plan of the request
ExtractText ==
  /\ pc = "extract"
  /\ Len(runs) < MaxRuns
  /\ Called(parserText, ExtractedAt(request, parserText, lastIndex), lastIndex)
  /\ UNCHANGED <<request, files, pc, idx, extractions, response, cur, trace, timers,
                 parserText, parser, csvRows>>

NextEX == ExtractText

SpecEX == InitEX /\ [][NextEX]_vars

(***************************************************************************)
(* The CSV export of the page (handleExportCSV): extractions holds the     *)
(* results the page received, csvRows the rows pushed so far               *)
(***************************************************************************)
\* the number of results the page holds
MaxExport == 2

\* `${x}` of a whole number that is not negative
RECURSIVE DigitsOf(_)
DigitsOf(n) ==
  IF n < 10 THEN <<DigitSeq[n + 1]>>
  ELSE DigitsOf(n \div 10) \o <<DigitSeq[(n % 10) + 1]>>
\* the digits of the mantissa, with zeros in front so that one digit stands
\* before the decimal point
PaddedDigits(d, exp) == IF Len(d) <= exp THEN Repeat("0", exp - Len(d) + 1) \o d ELSE d
PointedDigits(d, exp) ==
  IF exp = 0 THEN d
  ELSE SubSeq(d, 1, Len(d) - exp) \o <<".">> \o SubSeq(d, Len(d) - exp + 1, Len(d))
\* `${x}` of a number
NumberToString(x) ==
  IF x.nan THEN Chars("NaN")
  ELSE (IF x.neg THEN <<"-">> ELSE <<>>)
         \o PointedDigits(PaddedDigits(DigitsOf(x.mant), x.exp), x.exp)

\* `${result.field || ''}`
StringValue(result, field) == IF field \in DOMAIN result THEN result[field] ELSE <<>>
\* `${item.quantity || ''}`: nothing for undefined, NaN and 0
NumberValue(has, x) == IF has /\ Truthy(x) THEN NumberToString(x) ELSE <<>>
\* `${result.error}`: the message as one string
RECURSIVE Flatten(_)
Flatten(msg) == IF msg = <<>> THEN <<>> ELSE Chars(Head(msg)) \o Flatten(Tail(msg))

\* `"${value}"`
Quoted(value) == <<"\"">> \o value \o <<"\"">>
\* cells.join(',')
RECURSIVE joinCells(_)
joinCells(cells) ==
  IF cells = <<>> THEN <<>>
  ELSE IF Len(cells) = 1 THEN cells[1]
       ELSE cells[1] \o <<",">> \o joinCells(Tail(cells))

csvHeader ==
  Chars("Filename,Invoice Number,Vendor,Date,Subtotal,Tax,Tax Rate,Total,")
    \o Chars("Line Item Description,Line Item Quantity,Line Item Unit Price,")
    \o Chars("Line Item Amount,Error")

\* the eight cells of the invoice that every row of a result begins with
InvoiceCells(result) ==
  <<Quoted(StringValue(result, "filename")), Quoted(StringValue(result, "invoiceNumber")),
    Quoted(StringValue(result, "vendor")), Quoted(StringValue(result, "date")),
    Quoted(StringValue(result, "subtotal")), Quoted(StringValue(result, "tax")),
    Quoted(StringValue(result, "taxRate")), Quoted(StringValue(result, "total"))>>

\* `"${result.filename || ''}","","","","","","","","","","","","${result.error}"`
ErrorRow(result) ==
  joinCells(<<Quoted(StringValue(result, "filename"))>> \o [k \in 1..11 |-> Quoted(<<>>)]
              \o <<Quoted(Flatten(result.error))>>)
ItemRow(result, item) ==
  joinCells(InvoiceCells(result)
              \o <<Quoted(item.description),
                   Quoted(NumberValue(item.hasQuantity, item.quantity)),
                   Quoted(NumberValue(item.hasQuantity, item.unitPrice)),
                   Quoted(NumberValue(TRUE, item.amount)),
                   Quoted(<<>>)>>)
SummaryRow(result) ==
  joinCells(InvoiceCells(result)
              \o <<Quoted(Chars("No line items extracted")), Quoted(<<>>), Quoted(<<>>),
                   Quoted(<<>>), Quoted(<<>>)>>)

\* result.lineItems && result.lineItems.length > 0
HasLineItems(result) == "lineItems" \in DOMAIN result /\ Len(result.lineItems) > 0

\* the body of the forEach with a single row for the first line item
RowsOfFirstItem(result) ==
  IF "error" \in DOMAIN result THEN <<ErrorRow(result)>>
  ELSE IF HasLineItems(result) THEN <<ItemRow(result, result.lineItems[1])>>
  ELSE <<SummaryRow(result)>>

\* extractedData.forEach(result => { ... }): the rows pushed for one result
RowsOf(result) ==
  IF "error" \in DOMAIN result THEN <<ErrorRow(result)>>
  ELSE IF HasLineItems(result)
  THEN [k \in DOMAIN result.lineItems |-> ItemRow(result, result.lineItems[k])]
  ELSE <<SummaryRow(result)>>

\* csvRows.join('\n')
csvContent(rows) == join(rows)

\* texts whose results have no field, fields and one item, two items, an
\* item of quantity 0, a rate of tax, an item without quantity
ExportTexts ==
  { TextNoise, TextInvoice, TableOf(2), join(<<HeaderLine, ZeroQuantityRow>>),
    join(<<Chars("Invoice INV-1001"), Chars("Tax Rate: 5%")>>), ScenarioText }
\* the results a route sends the page: the results of the texts, and an error
ResultsOf(req) ==
  {ExtractedAt(req, t, NoLastIndex) : t \in ExportTexts}
    \cup {ErrorResult(Chars("b.pdf"), <<"PDF parsing failed: ", "PDF file is empty">>)}

InitCSV ==
  /\ request \in SampleRequests
  /\ extractions \in UNION {[1..n -> ResultsOf(request)] : n \in 0..MaxExport}
  /\ files = <<>>
  /\ pc = "export"
  /\ idx = 0
  /\ response = NoResponse
  /\ cur = NewFile
  /\ trace = <<>>
  /\ timers = {}
  /\ parserText = <<>>
  /\ parser = NoParser
  /\ ExportIdle

\* if (extractedData.length === 0) { toast.error('No data to export'); return; }
ExportNothing ==
  /\ pc = "export"
  /\ Len(extractions) = 0
  /\ pc' = "exported"
  /\ UNCHANGED <<request, files, idx, extractions, response, cur, trace, timers,
                 parserText, parser, lastIndex, runs, csvRows>>

\* csvRows.push(header)
ExportHeader ==
  /\ pc = "export"
  /\ Len(extractions) > 0
  /\ csvRows' = <<csvHeader>>
  /\ idx' = 1
  /\ pc' = "rows"
  /\ UNCHANGED <<request, files, extractions, response, cur, trace, timers,
                 parserText, parser, lastIndex, runs>>

\* one iteration of extractedData.forEach
ExportResult ==
  /\ pc = "rows"
  /\ idx <= Len(extractions)
  /\ csvRows' = csvRows \o RowsOf(extractions[idx])
  /\ idx' = idx + 1
  /\ UNCHANGED <<request, files, pc, extractions, response, cur, trace, timers,
                 parserText, parser, lastIndex, runs>>

\* the rows joined and handed to the browser as the file
Download ==
  /\ pc = "rows"
  /\ idx > Len(extractions)
  /\ pc' = "exported"
  /\ UNCHANGED <<request, files, idx, extractions, response, cur, trace, timers,
                 parserText, parser, lastIndex, runs, csvRows>>

NextCSV == ExportNothing \/ ExportHeader \/ ExportResult \/ Download

SpecCSV == InitCSV /\ [][NextCSV]_vars

(***************************************************************************)
(* The page loop of extractTextFromPDF, page by page: files holds the      *)
(* document, idx is the loop's i, trace the pages read with getPage and    *)
(* parserText the fullText                                                 *)
(***************************************************************************)
\* the text of page k of a document; every seventh page is blank
PageText(k) == IF k % 7 = 3 THEN TextBlank ELSE <<"P">> \o DigitsOf(k)
\* documents of no page, one page, and as many pages as the ceilings of
\* extract-ocr and extract-simple, and one more
PageCounts ==
  {0, 1, MaxPagesOcr, MaxPagesOcr + 1, MaxPagesSimple, MaxPagesSimple + 1}
PagedFile(n) ==
  [name |-> Chars("a.pdf"), type |-> PdfType, size |-> MB, pages |-> [k \in 1..n |-> PageText(k)]]

\* const maxPages = Math.min(pdf.numPages, 50), Math.min(pdf.numPages, 10);
\* extract and extract-enhanced loop to pdf.numPages
maxPages(route, numPages) ==
  CASE route = "simple" -> Min(numPages, MaxPagesSimple)
    [] route = "ocr" -> Min(numPages, MaxPagesOcr)
    [] OTHER -> numPages

\* fullText += pageText + '\n', in extract-simple and extract-ocr under
\* if (pageText.trim())
PageAdded(route, fullText, pageText) ==
  IF route \in {"extract", "enhanced"} \/ trim(pageText) # <<>>
  THEN fullText \o pageText \o <<"\n">>
  ELSE fullText

\* the text returned after the loop: fullText, or fullText.trim()
TextReturned(route, fullText) ==
  IF route \in {"extract", "enhanced"} THEN fullText ELSE trim(fullText)

InitPG ==
  /\ request \in {r \in SampleRequests : ~getUserSubscription(r) /\ r.authorization = <<>>}
  /\ files \in {<<PagedFile(n)>> : n \in PageCounts}
  /\ pc = "getDocument"
  /\ idx = 1
  /\ extractions = <<>>
  /\ response = NoResponse
  /\ cur = NewFile
  /\ trace = <<>>
  /\ timers = {}
  /\ parserText = <<>>
  /\ parser = NoParser
  /\ ExportIdle

\* if (pdf.numPages === 0) throw new Error('PDF has no pages')
NoPages ==
  /\ pc = "getDocument"
  /\ Len(files[1].pages) = 0
  /\ pc' = "thrown"
  /\ cur' = [cur EXCEPT !.native = "failed"]
  /\ UNCHANGED <<request, files, idx, extractions, response, trace, timers,
                 parserText, parser, lastIndex, runs, csvRows>>

\* let fullText = ''; const maxPages = ...; i = 1
OpenDocument ==
  /\ pc = "getDocument"
  /\ Len(files[1].pages) > 0
  /\ pc' = "pages"
  /\ UNCHANGED <<request, files, idx, extractions, response, cur, trace, timers,
                 parserText, parser, lastIndex, runs, csvRows>>

\* one iteration of for (let i = 1; i <= maxPages; i++)
ReadPage ==
  /\ pc = "pages"
  /\ idx <= maxPages(request.route, Len(files[1].pages))
  /\ trace' = Append(trace, idx)
  /\ parserText' = PageAdded(request.route, parserText, files[1].pages[idx])
  /\ idx' = idx + 1
  /\ UNCHANGED <<request, files, pc, extractions, response, cur, timers,
                 parser, lastIndex, runs, csvRows>>

\* after the loop: the error of a blank text, or the text
ReturnText ==
  /\ pc = "pages"
  /\ ~(idx <= maxPages(request.route, Len(files[1].pages)))
  /\ pc' = IF trim(parserText) = <<>> THEN "thrown" ELSE "returned"
  /\ cur' = [cur EXCEPT !.native = IF trim(parserText) = <<>> THEN "failed" ELSE "ok",
                        !.nativeText = IF trim(parserText) = <<>> THEN <<>>
                                       ELSE TextReturned(request.route, parserText)]
  /\ UNCHANGED <<request, files, idx, extractions, response, trace, timers,
                 parserText, parser, lastIndex, runs, csvRows>>

NextPG == NoPages \/ OpenDocument \/ ReadPage \/ ReturnText

SpecPG == InitPG /\ [][NextPG]_vars

(***************************************************************************)
(* Properties of the batch loop                                            *)
(***************************************************************************)
ErrorAt(i) == "error" \in DOMAIN extractions[i]
ErrorOnly(i) == DOMAIN extractions[i] = {"filename", "error"}
\* the batch passes the gates of POST
PassesGate ==
  Len(files) > 0 /\ Len(files) <= maxFiles(request) /\ ~ContentTooLarge(request)
\* file i breaks the size ceiling or the media-type rule of the route
Violates(i) == ~TypeAccepted(request, files[i]) \/ ~SizeAccepted(request, files[i])
\* no step of the text acquisition was taken for the file whose record is t
Untouched(t) ==
  /\ ~t.read /\ t.native = "none" /\ t.ocrCalls = 0 /\ t.rasterCalls = 0
  /\ t.altRasterCalls = 0 /\ t.recognizeCalls = 0 /\ t.created = 0
Returned == pc = "done" /\ response.status = 200

\* C1: in every route a batch that passes the gate returns one entry per
\* input file, and entry i carries the name of file i ('Unknown file' for a
\* file without a name), whatever the files' outcomes are.
C1_OneEntryPerFile ==
  /\ Len(extractions) <= Len(files)
  /\ \A i \in DOMAIN extractions :
       extractions[i].filename =
         (IF files[i].name = <<>> THEN UnknownFile ELSE files[i].name)
  /\ (pc = "done" /\ PassesGate) => Returned /\ Len(extractions) = Len(files)

\* a batch of a rejected and a successful file, answered
C1_Witness ==
  /\ Returned /\ Len(files) = 2 /\ files[1].name # files[2].name
  /\ Violates(1) /\ ErrorAt(1) /\ ~ErrorAt(2)

\* C2: an empty batch and a batch over the ceiling of the route (5, 50 for
\* premium, 3 for extract-ocr, 10 for extract) are answered by one error of
\* the batch with a status that is no success, without results, and no file
\* is read or given to the text acquisition.
C2_BatchGate ==
  LET ceiling == CASE request.route = "simple" -> 5
                   [] request.route = "ocr" -> 3
                   [] request.route = "extract" -> 10
                   [] request.route = "enhanced" ->
                        IF getUserSubscription(request) THEN 50 ELSE 5
  IN (Len(files) = 0 \/ Len(files) > ceiling) =>
       /\ extractions = <<>> /\ trace = <<>> /\ cur = NewFile
       /\ pc \in {"gate", "done"}
       /\ pc = "done" => response.status >= 400 /\ response.error # <<>>

\* six files sent to extract-simple, refused with status 400
C2_Witness ==
  /\ request.route = "simple" /\ Len(files) = 6
  /\ pc = "done" /\ response.status = 400 /\ extractions = <<>>

\* C3: a file over the size ceiling or against the media-type rule gets an
\* error result, is never read and never given to the text acquisition; the
\* other files of the batch are read and processed.
C3_RejectedFile ==
  /\ \A i \in DOMAIN trace :
       IF Violates(i) THEN ErrorAt(i) /\ ErrorOnly(i) /\ Untouched(trace[i])
       ELSE trace[i].read /\ (trace[i].native # "none" \/ trace[i].ocrCalls > 0)
  /\ (pc \notin {"gate", "done"} /\ idx \in DOMAIN files /\ Violates(idx)) => Untouched(cur)

\* a rejected file followed by a file that is extracted
C3_Witness ==
  /\ Returned /\ Len(files) = 2
  /\ Violates(1) /\ ErrorAt(1) /\ ~Violates(2) /\ ~ErrorAt(2) /\ trace[2].read

\* C4: a file whose acquisition fails gets an error result; the failure is
\* no error of the batch, and the files after it are processed and get
\* their results.
C4_FailureContained ==
  /\ \A i \in DOMAIN trace :
       (trace[i].read /\ trace[i].method = "none") => ErrorAt(i) /\ ErrorOnly(i)
  /\ PassesGate => response.status \in {0, 200} /\ response.error = <<>>
  /\ (pc = "done" /\ PassesGate) =>
       /\ Returned /\ Len(extractions) = Len(files)
       /\ \A j \in DOMAIN trace : ~Violates(j) => trace[j].read

\* both conversions of the first file to images fail, the second file is
\* extracted
C4_Witness ==
  /\ Returned /\ Len(files) = 2 /\ request.route = "ocr"
  /\ trace[1].altRasterCalls = 1 /\ trace[1].method = "none" /\ ErrorAt(1)
  /\ trace[2].read /\ ~ErrorAt(2)

(***************************************************************************)
(* Properties of the text acquisition                                      *)
(***************************************************************************)
\* file i is a PDF of extract-ocr: its native text was tried
PdfOfOcr(i) == request.route = "ocr" /\ trace[i].native # "none"
\* the length the routes measure: of the trimmed native text
NativeLength(i) == Len(trim(trace[i].nativeText))

\* C5, as it is stated: in extract-ocr a native text of fewer than 50
\* characters, or none, sends the file to the OCR of PDFs and is not the text
\* of the file; a native text of 50 characters or more is returned without OCR.
C5_BelowThreshold ==
  \A i \in DOMAIN trace : PdfOfOcr(i) =>
    /\ (trace[i].native = "failed" \/ NativeLength(i) < 50) =>
         trace[i].ocrCalls > 0 /\ trace[i].method # "native"
    /\ (trace[i].native = "ok" /\ NativeLength(i) >= 50) => trace[i].ocrCalls = 0

\* C5, amended: in extract-ocr a native text of at most 50 characters, or
\* none, sends the file to the OCR of PDFs and is not the text of the file;
\* OCR is not invoked when the native text is longer than 50 characters.
C5_AtMostThreshold ==
  \A i \in DOMAIN trace : PdfOfOcr(i) =>
    /\ (trace[i].native = "failed" \/ NativeLength(i) <= 50) =>
         trace[i].ocrCalls > 0 /\ trace[i].method # "native"
    /\ (trace[i].native = "ok" /\ NativeLength(i) > 50) =>
         trace[i].ocrCalls = 0 /\ trace[i].method = "native"

\* a native text of exactly 50 characters, and the text of the file is the
\* text the OCR gave
C5_Witness ==
  \E i \in DOMAIN trace :
    /\ PdfOfOcr(i) /\ trace[i].native = "ok" /\ NativeLength(i) = 50
    /\ trace[i].ocrCalls = 1 /\ trace[i].method = "pdfOcr" /\ ~ErrorAt(i)

C7_Timeout ==
  /\ \A i \in DOMAIN trace :
       /\ trace[i].timedOut =>
            /\ ErrorAt(i) /\ MessageIncludes(extractions[i].error, "OCR timed out")
            /\ trace[i].recognizeCalls = 1 /\ trace[i].ocrCalls = 1
       /\ (ErrorAt(i) /\ MessageIncludes(extractions[i].error, "OCR timed out"))
            => trace[i].timedOut
       /\ trace[i].recognizeCalls <= 1
  /\ cur.recognizeCalls <= 1
  /\ (pc = "done" /\ PassesGate) => Returned /\ Len(extractions) = Len(files)

\* the first file's recognition times out, the second file's recognition
\* gives its text
C7_Witness ==
  /\ Returned /\ Len(files) = 2
  /\ trace[1].timedOut /\ ErrorAt(1)
  /\ trace[2].method \in {"pdfOcr", "imageOcr"} /\ ~ErrorAt(2)

\* C8: a result with an error holds the file's name and the error and
\* nothing else, so a result with a data field holds no error.
C8_ErrorExclusive ==
  \A i \in DOMAIN extractions : ErrorAt(i) => ErrorOnly(i)

\* an error result beside a result with data fields
C8_Witness ==
  /\ Returned /\ Len(extractions) = 2
  /\ ErrorAt(1) /\ trace[1].read
  /\ ~ErrorAt(2) /\ {"total", "notes"} \subseteq DOMAIN extractions[2]

(***************************************************************************)
(* Properties of the line-item parser                                      *)
(***************************************************************************)
\* C9: every item of the parser's list has an amount that is a number
\* greater than 0 and a description of more than 5 characters: the rows
\* whose amount is missing, zero, negative or no number are left out.
C9_ValidLineItems ==
  \A k \in DOMAIN parser.lineItems :
    /\ ~parser.lineItems[k].amount.nan
    /\ ~parser.lineItems[k].amount.neg
    /\ parser.lineItems[k].amount.mant > 0
    /\ Len(parser.lineItems[k].description) > 5

\* a table of a row with amount 0.00 and a valid row: the list returned
\* holds the valid row only
C9_Witness ==
  /\ parser.pc = "done"
  /\ parser.lines = <<HeaderLine, ZeroAmountRow, QuantityRow>>
  /\ Len(parser.lineItems) = 1
  /\ parser.lineItems[1].description = Chars("Widget ABCD")

\* C10: the parser's list never holds more than 20 items, and once 20 items
\* are accepted the loop over the lines is over.
C10_Capped ==
  /\ Len(parser.lineItems) <= 20
  /\ parser.lineCount >= 20 => parser.pc = "done"

\* C11: for the header 'Description Qty Price Amount', the row
\* 'Widget A 3 10.00 30.00' and the line 'Subtotal: 30.00' the parser
\* returns one item, with description 'Widget A', quantity 3, unit price
\* 10.00 and amount 30.00, and its scan ends at the line of the subtotal.
C11_ScenarioD ==
  (parserText = ScenarioText /\ parser.pc = "done") =>
    /\ Len(parser.lineItems) = 1
    /\ parser.lineItems[1].description = Chars("Widget A")
    /\ parser.lineItems[1].hasQuantity
    /\ parser.lineItems[1].quantity = parseFloat(Chars("3"))
    /\ parser.lineItems[1].unitPrice = parseFloat(Chars("10.00"))
    /\ parser.lineItems[1].amount = parseFloat(Chars("30.00"))
    /\ parser.i = 3 /\ parser.lines[parser.i] = ScenarioFooter

\* the first line that holds a word of a table header, 0 if there is none
FirstHeader(lines) ==
  IF \E k \in DOMAIN lines : hasTableHeaders(lines[k])
  THEN CHOOSE k \in DOMAIN lines :
         /\ hasTableHeaders(lines[k])
         /\ \A j \in 1..(k - 1) : ~hasTableHeaders(lines[j])
  ELSE 0
\* the first line after line h that begins with a word that ends the table,
\* the number of lines plus one if there is none
StopLine(lines, h) ==
  IF \E k \in (h + 1)..Len(lines) : test(footerPattern, lines[k])
  THEN CHOOSE k \in (h + 1)..Len(lines) :
         /\ test(footerPattern, lines[k])
         /\ \A j \in (h + 1)..(k - 1) : ~test(footerPattern, lines[j])
  ELSE Len(lines) + 1
\* the items of the lines k..(stop - 1), each line parsed on its own
RECURSIVE ItemsBetween(_, _, _)
ItemsBetween(lines, k, stop) ==
  IF k >= stop THEN <<>> ELSE ParseLine(lines[k]) \o ItemsBetween(lines, k + 1, stop)
RegionItems(lines, h) ==
  IF h = 0 THEN <<>> ELSE ItemsBetween(lines, h + 1, StopLine(lines, h))

\* C12: the items are those of the lines after the first header line and
\* before the first line after it that begins with subtotal, tax, total,
\* note, payment, due or thank: the header line gives no item, no line from
\* the stop line on gives one even after a second header, and a text without
\* a header line gives none.
C12_TableRegion ==
  /\ ~parser.inLineItemSection => parser.lineItems = <<>>
  /\ parser.pc = "done" =>
       /\ parser.lineItems = RegionItems(parser.lines, FirstHeader(parser.lines))
       /\ FirstHeader(parser.lines) = 0 => parser.lineItems = <<>>
       /\ parser.i = IF FirstHeader(parser.lines) = 0 THEN Len(parser.lines) + 1
                     ELSE StopLine(parser.lines, FirstHeader(parser.lines))

\* the scan of a text of two tables ended at the line that ends the first:
\* the list holds the row of the first table only
C12_Witness ==
  /\ parserText = TwoTablesText /\ parser.pc = "done"
  /\ parser.i = 4 /\ parser.lines[4] = FooterLine
  /\ Len(parser.lineItems) = 1
  /\ parser.lineItems[1].description = Chars("Widget ABCD")

\* C22: a row of quantity, description, unit price and amount that the
\* pattern of description, quantity, unit price and amount does not match
\* gives an item whose quantity is the leading number and whose description
\* is the text, as '2 Premium Widget 10 20' does; an item without quantity
\* comes from a row that neither pattern of four groups matches.
C22_QuantityFirst ==
  parser.pc = "done" =>
    /\ parserText = QuantityFirstText =>
         /\ Len(parser.lineItems) = 1
         /\ parser.lineItems[1].description = Chars("Premium Widget")
         /\ parser.lineItems[1].hasQuantity
         /\ parser.lineItems[1].quantity = parseFloat(Chars("2"))
         /\ parser.lineItems[1].unitPrice = parseFloat(Chars("10"))
         /\ parser.lineItems[1].amount = parseFloat(Chars("20"))
    /\ (/\ Len(parser.lines) = 2 /\ parser.lines[1] = HeaderLine
        /\ Len(parser.lineItems) = 1 /\ ~parser.lineItems[1].hasQuantity)
         => /\ ~test(tablePatternDescQtyPriceAmount, parser.lines[2])
            /\ ~test(tablePatternQtyDescPriceAmount, parser.lines[2])

(***************************************************************************)
(* Properties of the extraction                                            *)
(***************************************************************************)
\* the text holds the word, in capitals or not
Mentions(text, word) ==
  \E i \in 1..(Len(text) - Len(word) + 1) :
    \A j \in 1..Len(word) : ToLowerChar(text[i + j - 1]) = word[j]
MentionsOrder(text) ==
  Mentions(text, Chars("purchase order")) \/ Mentions(text, Chars("po number"))
MentionsContract(text) ==
  Mentions(text, Chars("contract")) \/ Mentions(text, Chars("agreement"))
MentionsBank(text) ==
  Mentions(text, Chars("bank statement")) \/ Mentions(text, Chars("account balance"))
MentionsReceipt(text) ==
  Mentions(text, Chars("receipt")) /\ ~Mentions(text, Chars("invoice"))

\* the results of the enhanced route in runs
EnhancedRuns == IF request.route = "enhanced" THEN DOMAIN runs ELSE {}

\* C13: every text gets one document type, the same at every call: Purchase
\* Order if it holds 'purchase order' or 'po number'; else Contract if it
\* holds 'contract' or 'agreement'; else Bank Statement if it holds 'bank
\* statement' or 'account balance'; else Receipt if it holds 'receipt' and
\* not 'invoice'; else Standard Invoice; capitals make no difference.
C13_ClassifierOrder ==
  \A k \in EnhancedRuns :
    /\ "documentType" \in DOMAIN runs[k]
    /\ runs[k].documentType = runs[1].documentType
    /\ runs[k].documentType =
         CASE MentionsOrder(parserText) -> "Purchase Order"
           [] ~MentionsOrder(parserText) /\ MentionsContract(parserText) -> "Contract"
           [] ~MentionsOrder(parserText) /\ ~MentionsContract(parserText)
                /\ MentionsBank(parserText) -> "Bank Statement"
           [] ~MentionsOrder(parserText) /\ ~MentionsContract(parserText)
                /\ ~MentionsBank(parserText) /\ MentionsReceipt(parserText) -> "Receipt"
           [] OTHER -> "Standard Invoice"

\* a text that names an agreement before a purchase order, called twice:
\* both calls take it for a purchase order
C13_Witness ==
  /\ request.route = "enhanced"
  /\ parserText = join(<<Chars("Service Agreement"), Chars("Purchase Order PO-778")>>)
  /\ Len(runs) = 2
  /\ runs[1].documentType = "Purchase Order"
  /\ runs[2].documentType = "Purchase Order"

\* C14: no result holds both tax and taxRate: a taxRate is a capture that
\* holds '%' and stands without a tax, a tax is a capture without '%' that
\* is an amount over zero and stands without a taxRate.
C14_TaxOrRate ==
  \A k \in DOMAIN runs :
    /\ ~("tax" \in DOMAIN runs[k] /\ "taxRate" \in DOMAIN runs[k])
    /\ "taxRate" \in DOMAIN runs[k] => includes(runs[k].taxRate, <<"%">>)
    /\ "tax" \in DOMAIN runs[k] =>
         /\ ~includes(runs[k].tax, <<"%">>)
         /\ GreaterThanZero(parseFloat(runs[k].tax))

\* a text with a rate of tax and no amount of tax, through extractInvoiceData
\* of the OCR route: the result holds the rate and no tax
C14_Witness ==
  /\ request.route = "ocr"
  /\ parserText = join(<<Chars("Invoice INV-1001"), Chars("Tax Rate: 5%")>>)
  /\ Len(runs) >= 1
  /\ "taxRate" \in DOMAIN runs[1] /\ runs[1].taxRate = Chars("5%")
  /\ "tax" \notin DOMAIN runs[1]

\* a capture of a tax pattern that passes the loop's check: a rate, or an
\* amount over zero
ValidTax(cap) ==
  /\ cap # <<>>
  /\ includes(cap, <<"%">>) \/ GreaterThanZero(parseFloat(removeCommas(cap)))
\* a capture of a total pattern that passes the loop's check
ValidTotal(cap) == cap # <<>> /\ GreaterThanZero(parseFloat(removeCommas(cap)))
\* the results of extractInvoiceData of extract-simple and extract-ocr in runs
InvoiceRuns == IF request.route \in {"simple", "ocr"} THEN DOMAIN runs ELSE {}

\* C15: the patterns of a field are tried in their order and the first that
\* matches with a valid capture gives the field: when a later tax pattern
\* captures a rate or an amount over zero the result holds a tax or a
\* taxRate, and when a total pattern captures an amount over zero the
\* result holds the total of the first such pattern, whatever an earlier
\* pattern captured.
C15_FirstValidWins ==
  \A k \in InvoiceRuns :
    /\ (\E j \in DOMAIN taxPatterns : ValidTax(Captured(parserText, taxPatterns[j])))
         => ("tax" \in DOMAIN runs[k] \/ "taxRate" \in DOMAIN runs[k])
    /\ \A j \in DOMAIN totalPatterns :
         (/\ ValidTotal(Captured(parserText, totalPatterns[j]))
          /\ \A i \in 1..(j - 1) : ~ValidTotal(Captured(parserText, totalPatterns[i])))
         => /\ "total" \in DOMAIN runs[k]
            /\ runs[k].total = removeCommas(Captured(parserText, totalPatterns[j]))

\* the names of the fields of the pattern set of the given name
FieldNames(name) ==
  UNION {{pattern.patterns[j].field : j \in DOMAIN pattern.patterns} :
           pattern \in {extractionPatterns[k] : k \in {k \in DOMAIN extractionPatterns :
                                                         extractionPatterns[k].name = name}}}
\* the pattern set the plan allows for the type detected
AllowedSet(premium, documentType) == IF premium THEN documentType ELSE "Standard Invoice"

\* C16: for a caller without the premium plan the set applied is Standard
\* Invoice whatever type is detected; for a premium caller it is the set
\* named by the type detected; the fields of the result are fields of the
\* set applied.
C16_TierPatterns ==
  \A k \in EnhancedRuns :
    /\ runs[k].extractionPattern = AllowedSet(isPremium(request), runs[k].documentType)
    /\ (DOMAIN runs[k]) \ {"filename", "documentType", "extractionPattern"}
         \subseteq FieldNames(AllowedSet(isPremium(request), runs[k].documentType))

\* a receipt sent by a caller without the premium plan: the type detected is
\* Receipt, the set applied is Standard Invoice and the result holds no
\* merchant and no items
C16_Witness ==
  /\ request.route = "enhanced" /\ ~isPremium(request)
  /\ parserText = ReceiptText
  /\ Len(runs) >= 1
  /\ runs[1].documentType = "Receipt"
  /\ runs[1].extractionPattern = "Standard Invoice"
  /\ DOMAIN runs[1] \cap {"merchant", "items"} = {}

\* C20: the calls of the extraction on one text with one plan return the
\* same result: no call leaves a match position to the next, and what a
\* call returns is a function of the text, the route and the plan.
C20_Idempotent ==
  /\ lastIndex = NoLastIndex
  /\ \A j, k \in DOMAIN runs : runs[j] = runs[k]

\* a receipt of three articles sent twice by a premium caller: both calls
\* return the second article as items, the match of the g-flag pattern
\* that match[1] is
C20_Witness ==
  /\ isPremium(request)
  /\ parserText = ReceiptText
  /\ Len(runs) = 2
  /\ runs[1].extractionPattern = "Receipt"
  /\ runs[1].items = Chars("Bagel 2.25")
  /\ runs[2] = runs[1]

(***************************************************************************)
(* Properties of the CSV export                                            *)
(***************************************************************************)
\* the number of rows of a result: one for an error, one per line item, one
\* for a result without line items
RowCount(result) ==
  IF "error" \in DOMAIN result THEN 1
  ELSE IF "lineItems" \in DOMAIN result THEN Max(1, Len(result.lineItems)) ELSE 1
\* the number of rows of the first n results
RECURSIVE DataRows(_, _)
DataRows(results, n) ==
  IF n = 0 THEN 0 ELSE DataRows(results, n - 1) + RowCount(results[n])
\* the row of the file for row k of result i: after the header and the rows
\* of the results before i
RowAt(i, k) == csvRows[1 + DataRows(extractions, i - 1) + k]
\* the results whose rows are pushed
Exported == IF pc = "rows" THEN 1..(idx - 1)
            ELSE IF pc = "exported" THEN DOMAIN extractions ELSE {}

\* C18: after the header row the export holds the rows of the results in
\* their order: one row for a result with an error, that ends with the
\* error; one row per line item for a result with line items, each with the
\* invoice's eight cells first and then the item's description; one row that
\* says that no line items were extracted otherwise.  The number of rows
\* after the header is the sum over the results of max(1, number of line
\* items), an error counting 1.
C18_CsvRows ==
  /\ Exported # {} =>
       /\ csvRows[1] = csvHeader
       /\ Len(csvRows) = 1 + DataRows(extractions, Cardinality(Exported))
  /\ \A i \in Exported : \A k \in 1..RowCount(extractions[i]) :
       /\ startsWith(RowAt(i, k), Quoted(extractions[i].filename) \o <<",">>)
       /\ "error" \in DOMAIN extractions[i] =>
            endsWith(RowAt(i, k), <<",">> \o Quoted(Flatten(extractions[i].error)))
       /\ ("error" \notin DOMAIN extractions[i] /\ HasLineItems(extractions[i])) =>
            startsWith(RowAt(i, k),
                       joinCells(InvoiceCells(extractions[i])) \o <<",">>
                         \o Quoted(extractions[i].lineItems[k].description) \o <<",">>)
       /\ ("error" \notin DOMAIN extractions[i] /\ ~HasLineItems(extractions[i])) =>
            startsWith(RowAt(i, k),
                       joinCells(InvoiceCells(extractions[i])) \o <<",">>
                         \o Quoted(Chars("No line items extracted")) \o <<",">>)

\* the export of a result of two line items and an error is over: the
\* header, two rows of the first file with its vendor and total on both, and
\* the row of the error
C18_Witness ==
  /\ pc = "exported"
  /\ Len(extractions) = 2
  /\ HasLineItems(extractions[1]) /\ Len(extractions[1].lineItems) = 2
  /\ "error" \in DOMAIN extractions[2]
  /\ Len(csvRows) = 4
  /\ csvRows[2] = Chars("\"a.pdf\",\"\",\"Item Qty Price Amount\",\"\",\"\",\"\",\"\",\"1200.50\",")
                    \o Chars("\"Widget ABCD\",\"3\",\"10\",\"30\",\"\"")
  /\ csvRows[3] = Chars("\"a.pdf\",\"\",\"Item Qty Price Amount\",\"\",\"\",\"\",\"\",\"1200.50\",")
                    \o Chars("\"Consulting fee\",\"\",\"\",\"1200.5\",\"\"")
  /\ csvRows[4] = Chars("\"b.pdf\",\"\",\"\",\"\",\"\",\"\",\"\",\"\",\"\",\"\",\"\",\"\",")
                    \o Chars("\"PDF parsing failed: PDF file is empty\"")

(***************************************************************************)
(* Properties of the batch loop, continued                                 *)
(***************************************************************************)
\* C17: in every route the result of a PDF file of 0 bytes is an error whose
\* message says that the file is empty, and it holds nothing an extraction
\* would have set.
C17_EmptyPdf ==
  \A i \in DOMAIN extractions :
    (files[i].size = 0 /\ ~Violates(i)) =>
      /\ ErrorAt(i) /\ ErrorOnly(i)
      /\ MessageIncludes(extractions[i].error, "PDF file is empty")

\* C19: a batch answered with status 200 reports as totalFiles the number
\* of files sent and as successfulExtractions the number of results without
\* an error, which with the number of error results makes totalFiles; a
\* result without any extracted field is one of the successful.
C19_Counts ==
  Returned =>
    /\ response.totalFiles = Len(files)
    /\ response.successfulExtractions = Cardinality({i \in DOMAIN extractions : ~ErrorAt(i)})
    /\ response.successfulExtractions + Cardinality({i \in DOMAIN extractions : ErrorAt(i)})
         = response.totalFiles
    /\ response.successfulExtractions
         >= Cardinality({i \in DOMAIN extractions : DOMAIN extractions[i] = {"filename"}})

\* a batch of a file whose text gave no field and a file that gave an error:
\* two files, one successful
C19_Witness ==
  /\ Returned /\ Len(files) = 2
  /\ DOMAIN extractions[1] = {"filename"} /\ trace[1].method = "native"
  /\ ErrorAt(2)
  /\ response.totalFiles = 2 /\ response.successfulExtractions = 1

\* C21: in extract-enhanced the premium limits and pattern sets are those of
\* a caller whose Authorization header names an active subscription; a
\* request without such a header is held to the limits of the free plan,
\* 10MB per request, 5 files and 2MB per file, and its results are those of
\* the Standard Invoice set, whatever its other headers are (stated for the
\* production build, where NODE_ENV plays no part).
C21_PlanFromCredentials ==
  (/\ request.route = "enhanced" /\ request.nodeEnv = "production"
   /\ ~getAuthenticatedSubscription(request)) =>
    /\ (pc # "gate" /\ request.contentLength > 10 * MB) => response.status = 413
    /\ (pc # "gate" /\ Len(files) > MaxFilesFree) => response.status \in {400, 413}
    /\ \A i \in DOMAIN extractions :
         /\ files[i].size > 2 * MB => ErrorAt(i)
         /\ ~ErrorAt(i) => extractions[i].extractionPattern = "Standard Invoice"

\* file i is declared application/pdf
DeclaredPdf(i) == files[i].type = PdfType
\* the name of file i ends with .pdf, in capitals or not
NamedPdf(i) ==
  Len(files[i].name) >= 4
  /\ toLowerCase(SubSeq(files[i].name, Len(files[i].name) - 3, Len(files[i].name)))
       = Chars(".pdf")

\* C24 as stated: in extract, extract-simple and extract-enhanced a file
\* whose declared media type is not application/pdf gets an error result
\* and is not given to the text acquisition, whatever its name.
C24_DeclaredPdfOnly ==
  request.route # "ocr" =>
    \A i \in DOMAIN trace : ~DeclaredPdf(i) => ErrorAt(i) /\ Untouched(trace[i])

\* C24, amended: in extract, extract-simple and extract-enhanced a file is
\* given to the text acquisition only if its declared media type is
\* application/pdf or its name ends with .pdf; a file with neither gets an
\* error result and is never read.
C24_PdfByTypeOrName ==
  request.route # "ocr" =>
    /\ \A i \in DOMAIN trace :
         /\ ~Untouched(trace[i]) => DeclaredPdf(i) \/ NamedPdf(i)
         /\ ~(DeclaredPdf(i) \/ NamedPdf(i)) => ErrorAt(i) /\ ErrorOnly(i)
    /\ (pc \notin {"gate", "done"} /\ idx \in DOMAIN files /\ ~Untouched(cur))
         => DeclaredPdf(idx) \/ NamedPdf(idx)

\* a file declared image/png and named h.pdf was read and its text
\* extracted, and a text file after it got an error
C24_Witness ==
  /\ request.route = "simple" /\ Returned /\ Len(files) = 2
  /\ files[1].type = PngType /\ files[1].name = Chars("h.pdf")
  /\ trace[1].read /\ ~ErrorAt(1)
  /\ files[2].type = TextType /\ ErrorAt(2) /\ Untouched(trace[2])

\* the messages of a failed or timed out recognition
GenericOcrMessages ==
  {"OCR could not extract any readable text", "OCR timed out",
   "OCR extraction failed to find readable text"}

ConversionMessages ==
  {"PDF file appears to be corrupted, password-protected, or in an unsupported format",
   "All PDF conversion methods failed - file may be corrupted or in unsupported format"}

\* C26: the alternative conversion of a file is called exactly when the
\* first conversion failed, and at most once; when it fails too no
\* recognition is run for the file and the error of the file carries one of
\* the corrupted/unsupported-format messages and none of the messages of a
\* failed or timed out recognition.
C26_AlternateRasterization ==
  /\ cur.altRasterCalls = (IF cur.raster = "throws" THEN 1 ELSE 0)
       \/ (pc = "altRaster" /\ cur.raster = "throws" /\ cur.altRasterCalls = 0)
  /\ \A i \in DOMAIN trace :
       /\ trace[i].altRasterCalls <= 1
       /\ trace[i].altRasterCalls = 1 <=> trace[i].raster = "throws"
       /\ trace[i].altRaster = "throws" =>
            /\ trace[i].recognizeCalls = 0
            /\ ErrorAt(i)
            /\ \E m \in ConversionMessages : MessageIncludes(extractions[i].error, m)
            /\ \A m \in GenericOcrMessages : ~MessageIncludes(extractions[i].error, m)

C26_Witness ==
  /\ pc = "done"
  /\ Len(trace) = 2
  /\ trace[1].raster = "throws" /\ trace[1].altRaster = "throws"
  /\ trace[1].altRasterCalls = 1 /\ trace[1].recognizeCalls = 0
  /\ MessageIncludes(extractions[1].error,
       "PDF file appears to be corrupted, password-protected, or in an unsupported format")
  /\ trace[2].raster = "throws" /\ trace[2].altRaster = "images"
  /\ trace[2].method = "pdfOcr"

\* C27: in extract-ocr the direct image recognition is entered only for a
\* file that is no PDF: a file that is a PDF by its declared type or by its
\* name has its native text extracted first, and is recognized only through
\* the rasterization of its pages.
C27_ImagePathNotForPdf ==
  request.route = "ocr" =>
    /\ pc \in {"imageOcr", "imageRecognize"} => ~isPDF(files[idx])
    /\ \A i \in DOMAIN trace :
         (trace[i].read /\ isPDF(files[i])) =>
           /\ trace[i].native # "none"
           /\ trace[i].method # "imageOcr"

\* C28: every item of the parser's list that has a quantity has a quantity
\* that is a number greater than 0 and a unit price that is a number not
\* below 0: a row whose quantity is zero, or no number, is left out.
C28_PositiveQuantity ==
  \A k \in DOMAIN parser.lineItems :
    parser.lineItems[k].hasQuantity =>
      /\ ~parser.lineItems[k].quantity.nan
      /\ ~parser.lineItems[k].quantity.neg
      /\ parser.lineItems[k].quantity.mant > 0
      /\ ~parser.lineItems[k].unitPrice.nan
      /\ ~parser.lineItems[k].unitPrice.neg

\* C29: every worker created for a file is terminated before the result of
\* the file is recorded: of every file whose result is in the list, as many
\* workers were terminated as were created.
C29_WorkersTerminated ==
  \A i \in DOMAIN trace : trace[i].terminated = trace[i].created

\* C30: in a response of extract-ocr, ocrProcessed is the number of files
\* whose text was obtained by recognition, of the pages of a PDF or of an
\* image; a file whose native text was sufficient carries no OCR note and
\* is not counted.
C30_OcrProcessedCountsOcr ==
  (request.route = "ocr" /\ pc = "done" /\ response.status = 200) =>
    /\ response.ocrProcessed =
         Cardinality({i \in DOMAIN trace : trace[i].method \in {"pdfOcr", "imageOcr"}})
    /\ \A i \in DOMAIN trace :
         trace[i].method = "native" => ~OcrNoted(extractions[i])

\* C25: the deadline runs over the whole OCR attempt of a file: while the
\* pages are rasterized, by the first or the alternative conversion, and
\* while the text is recognized, the timer of the file is set, so that the
\* attempt can end as a timeout.
C25_DeadlineCoversAttempt ==
  pc \in {"raster", "altRaster", "recognize", "imageRecognize"} => idx \in timers

(***************************************************************************)
(* Properties of the page loop                                             *)
(***************************************************************************)
\* the loop page by page returns what extractTextFromPDF's try block returns
\* for the document
PagesAgree ==
  pc \in {"returned", "thrown"} =>
    /\ (cur.native = "ok") = PrimaryText(request.route, files[1], Pages(files[1].pages)).ok
    /\ cur.nativeText = PrimaryText(request.route, files[1], Pages(files[1].pages)).text

\* C23: in every route the pages read are the leading pages in their order,
\* at most 10 of them in extract-ocr and at most 50 in any route: of a
\* document of more pages no page beyond the ceiling is read or adds text.
C23_PageCeiling ==
  /\ \A k \in DOMAIN trace : trace[k] = k
  /\ request.route = "ocr" => Len(trace) <= MaxPagesOcr
  /\ Len(trace) <= MaxPagesSimple
  /\ ~includes(parserText, PageText(MaxPagesSimple + 1))

====
